---- MODULE Spec2Model ----
(***************************************************************************)
(* Account selection and quota-aware routing core of CLIProxyAPI:          *)
(*   - the Antigravity quota group registry,                               *)
(*   - the proactive quota state tracker (UpdateAntigravityQuotaState),    *)
(*   - the selector family (round-robin, fill-first, quota-weighted).      *)
(* Time is an integer; one unit is five minutes; 0 is the zero time.Time.  *)
(***************************************************************************)
EXTENDS Integers, Sequences, FiniteSets, TLC

(***************************************************************************)
(* Bounds of the model.                                                    *)
(***************************************************************************)
MaxTime == 3
MaxCalls == 1

(***************************************************************************)
(* Program constants.                                                      *)
(***************************************************************************)
\* remainingFraction is counted in millionths; 1 is the 1e-6 threshold.
ExhaustedThreshold == 1
\* now.Add(5 * time.Minute), one time unit.
DefaultResetDelay == 1
\* quotaRecoveryBuffer = 5 * time.Minute, one time unit.
quotaRecoveryBuffer == 1

ZeroTime == 0

(***************************************************************************)
(* strings.HasPrefix / strings.HasSuffix / strings.TrimSuffix              *)
(***************************************************************************)
HasPrefix(s, p) == Len(p) <= Len(s) /\ SubSeq(s, 1, Len(p)) = p

HasSuffix(s, p) == Len(p) <= Len(s) /\ SubSeq(s, Len(s) - Len(p) + 1, Len(s)) = p

TrimSuffix(s, p) == IF HasSuffix(s, p) THEN SubSeq(s, 1, Len(s) - Len(p)) ELSE s

(***************************************************************************)
(* Quota group registry.                                                   *)
(***************************************************************************)
GroupIDs == {"claude-gpt", "gemini-3-pro", "gemini-2-5-flash", "gemini-2-5-flash-lite",
             "gemini-2-5-cu", "gemini-3-flash", "gemini-image"}

antigravityQuotaGroups ==
    [g \in GroupIDs |->
        CASE g = "claude-gpt" -> {"claude-sonnet-4-5-thinking", "claude-opus-4-5-thinking",
                                  "gpt-oss-120b-medium"}
          [] g = "gemini-3-pro" -> {"gemini-3-pro-high", "gemini-3-pro-low"}
          [] g = "gemini-2-5-flash" -> {"gemini-2.5-flash", "gemini-2.5-flash-thinking"}
          [] g = "gemini-2-5-flash-lite" -> {"gemini-2.5-flash-lite"}
          [] g = "gemini-2-5-cu" -> {"rev19-uic3-1p"}
          [] g = "gemini-3-flash" -> {"gemini-3-flash"}
          [] g = "gemini-image" -> {"gemini-3-pro-image"}]

\* buildAntigravityModelToGroupMap: the groups of which model is a listed member.
antigravityModelToGroup(model) == {g \in GroupIDs : model \in antigravityQuotaGroups[g]}

\* The groups whose ranged-over member base is a prefix of model.
PrefixGroups(model) ==
    {g \in GroupIDs : \E baseModel \in antigravityQuotaGroups[g] :
        HasPrefix(model, TrimSuffix(baseModel, "-thinking"))}

\* GetAntigravityQuotaGroupID: the set of values one call can return.  The
\* prefix pass ranges over a Go map, whose iteration order is unspecified,
\* and returns at the first hit: any group with a matching base can win.
GetAntigravityQuotaGroupID(model) ==
    IF model = "" THEN {""}
    ELSE IF antigravityModelToGroup(model) # {} THEN antigravityModelToGroup(model)
    ELSE IF PrefixGroups(model) # {} THEN PrefixGroups(model)
    ELSE {model}

\* GetAntigravityQuotaGroupModels: the set of member lists one call can return.
GetAntigravityQuotaGroupModels(model) ==
    IF model = "" THEN {{}}
    ELSE {IF groupID = model THEN {model} ELSE antigravityQuotaGroups[groupID] :
            groupID \in GetAntigravityQuotaGroupID(model)}

(***************************************************************************)
(* State.                                                                  *)
(***************************************************************************)
VARIABLES
    now,            \* time.Now()
    ModelStates,    \* auth.ModelStates of the tracked auth: model key -> ModelState
    timers,         \* globalQuotaScheduler.timers: auth id -> timer (its index in timerState)
    timerState,     \* the time.Timer objects created so far: auth id, fire time, state
    calls,          \* number of tracker calls made so far
    seeded,         \* whether the auth started with model states
    lastUpdate      \* the last UpdateAntigravityQuotaState call: input and outcome

trackerVars == <<now, ModelStates, timers, timerState, calls, seeded, lastUpdate>>

AuthID == "auth-1"

VARIABLES
    priority,       \* auth id -> Attributes["priority"]
    authState,      \* auth id -> NextRetryAfter of the ModelState for the model (ZeroTime: none)
    quota,          \* auth id -> quota entry the lookup finds for the model, or Unknown
    rrCursor,       \* RoundRobinSelector.cursors[key]
    fallbackCursor, \* QuotaWeightedSelector.fallback.cursors[key]
    cursors,        \* QuotaWeightedSelector.cursors[key]: auth id -> current
    picks,          \* number of Pick calls made so far
    envSteps,       \* number of changes to the auths made so far
    lastPick        \* the last Pick call: what it saw and what it returned

selVars == <<priority, authState, quota, rrCursor, fallbackCursor, cursors, picks,
             envSteps, lastPick>>

VARIABLES
    pc,             \* goroutine -> where it is in RoundRobinSelector.Pick
    local,          \* goroutine -> the available auths and the index it holds
    returned,       \* auth id -> number of Pick calls that returned it
    failed          \* whether some Pick call returned nil or an error

rrVars == <<pc, local, returned, failed>>

VARIABLES
    heap,           \* the *ModelState objects allocated so far: address -> ModelState
    maps,           \* the map[string]*ModelState objects: map -> (model key -> address)
    authMap,        \* auth.ModelStates: the map the auth points to
    upc,            \* where the running UpdateAntigravityQuotaState call is
    ulocal,         \* its locals: quotas, exhaustedGroups, newModelStates
    reader,         \* a concurrent reader: the map it loaded and what it held then
    publishedViews, \* the contents auth.ModelStates had whenever it was assigned
    cowCalls        \* number of UpdateAntigravityQuotaState calls started

cowVars == <<heap, maps, authMap, upc, ulocal, reader, publishedViews, cowCalls>>

VARIABLES
    AuthQuotas,     \* Store.data.AuthQuotas: authID -> StoreEntry
    dirty,          \* Store.dirty
    files,          \* the file at Store.filePath and the one at filePath + ".tmp"
    spc,            \* where the running Flush is, or "down" after an interruption
    lastOp,         \* the last Store call: its arguments, results and the state before
    deletedSince,   \* auths deleted and not Set since, in this process
    storeOps        \* number of Set, Delete, GetPercent and GetEntry calls made

storeVars == <<AuthQuotas, dirty, files, spc, lastOp, deletedSince, storeOps>>

VARIABLES
    variant,        \* which function runs: Execute, executeClaudeNonStream, ExecuteStream
    requestRetry,   \* cfg.RequestRetry or the auth's override
    baseURLs,       \* antigravityBaseURLFallbackOrder(auth)
    epc,            \* where the call is: start, request, wait, done
    attempt,        \* the attempt counter of attemptLoop
    baseIdx,        \* the position in baseURLs of the next request, from 1
    trace,          \* the requests sent with their responses, and the waits
    result,         \* what the call returned
    ctx,            \* the request context: live, canceled or deadline exceeded
    cancelAt,       \* where the call was when the context became done
    request,        \* the client request: entry point, model, tool types, user query
    usage,          \* the terminal calls the usage reporters of the call received
    stream          \* the goroutine that feeds a returned stream

execVars == <<variant, requestRetry, baseURLs, epc, attempt, baseIdx, trace, result,
              ctx, cancelAt, request, usage, stream>>

VARIABLES
    recovery,       \* one client request through the signature recovery
    token,          \* one ensureAccessToken call: the auth, the clock, the outcome
    poller,         \* one Poller.poll iteration: the auths, the semaphore, the fetches
    mirror          \* an auth's metadata under persistQuota, and the Updates issued

VARIABLES
    lookups,        \* a model name and what the lookups made for it returned
    feed            \* the goroutine behind a returned stream, and its channel

lateVars == <<lookups, feed>>

tailVars == <<recovery, token, poller, mirror, lateVars>>

\* The variables of the parts that follow the copy-on-write update.
laterVars == <<storeVars, execVars, tailVars>>

\* The variables of the parts that follow the selectors.
restVars == <<cowVars, laterVars>>

\* Everything but the store.
nonStoreVars == <<trackerVars, selVars, rrVars, cowVars, execVars, tailVars>>

\* Everything but the executor.
nonExecVars == <<trackerVars, selVars, rrVars, cowVars, storeVars, tailVars>>

\* Everything but the four parts declared last.
headVars == <<trackerVars, selVars, rrVars, cowVars, storeVars, execVars, lateVars>>

\* Everything but the two parts declared last.
oldVars == <<trackerVars, selVars, rrVars, cowVars, storeVars, execVars,
             recovery, token, poller, mirror>>

vars == <<trackerVars, selVars, rrVars, restVars>>

(***************************************************************************)
(* ModelState and QuotaState values.                                       *)
(***************************************************************************)
EmptyQuotaState == [Exceeded |-> FALSE, Reason |-> "", NextRecoverAt |-> ZeroTime]

\* &cliproxyauth.ModelState{Status: cliproxyauth.StatusActive}
NewModelState ==
    [Status |-> "active", Unavailable |-> FALSE, NextRetryAfter |-> ZeroTime,
     Quota |-> EmptyQuotaState, UpdatedAt |-> ZeroTime]

Max(S) == CHOOSE x \in S : \A y \in S : y <= x

\* The functions f on D with f[d] \in F(d): one result per call of a lookup
\* whose result the language leaves open.
Choices(D, F(_)) == {f \in [D -> UNION {F(d) : d \in D}] : \A d \in D : f[d] \in F(d)}

(***************************************************************************)
(* Inputs of the tracker: the models a fetchAvailableModels body reports.  *)
(***************************************************************************)
BodyModels == {"claude-sonnet-4-5-thinking", "gpt-oss-120b-medium",
               "gemini-2.5-flash-lite-preview"}

\* remainingFraction in millionths: exactly 1e-6, and just above it.
Fractions == {1, 2}

\* resetTime: absent or unparsable, or a time after every now.
ResetTimes == {ZeroTime, MaxTime + 1}

\* quotaInfo values; the reset time of a model with quota left is never read.
QuotaInfos ==
    {qi \in [remainingFraction : Fractions, resetTime : ResetTimes] :
        qi.remainingFraction > ExhaustedThreshold => qi.resetTime = ZeroTime}

\* parseAntigravityQuotaFromResponse: the map model -> quotaInfo of a body.
\* A body without a models object, or whose entries carry no quotaInfo,
\* parses to the empty map.
QuotaMaps ==
    UNION {[S -> QuotaInfos] : S \in SUBSET BodyModels}

\* Model states an auth can carry when the tracker first sees it: none, or a
\* state written by the request path (cooldown after an upstream error, with
\* or without the quota flag).
SeedStates ==
    {<<>>,
     [k \in {"claude-sonnet-4-5-thinking"} |->
        [Status |-> "active", Unavailable |-> TRUE, NextRetryAfter |-> MaxTime,
         Quota |-> [Exceeded |-> TRUE, Reason |-> "quota", NextRecoverAt |-> MaxTime],
         UpdatedAt |-> 1]],
     [k \in {"gpt-oss-120b-medium"} |->
        [Status |-> "active", Unavailable |-> TRUE, NextRetryAfter |-> MaxTime,
         Quota |-> EmptyQuotaState, UpdatedAt |-> 1]]}

\* The records of a body's models object: with a quotaInfo, or (for the
\* first model) with other fields only.
ModelRecords(m) ==
    {[quotaInfo |-> qi] : qi \in QuotaInfos}
        \cup (IF m = "claude-sonnet-4-5-thinking" THEN {[displayName |-> m]} ELSE {})

\* The bodies handed to UpdateAntigravityQuotaState: no bytes at all, JSON
\* without a models object, and a models object with any records.
ResponseBodies ==
    {[kind |-> k, models |-> <<>>] : k \in {"empty", "no-models"}}
        \cup {[kind |-> "models", models |-> f] :
                f \in {g \in UNION {[S -> UNION {ModelRecords(m) : m \in S}] :
                                      S \in SUBSET BodyModels} :
                            \A m \in DOMAIN g : g[m] \in ModelRecords(m)}}

\* No record of the body holds a quotaInfo.
Quotaless(bodyBytes) ==
    \A m \in DOMAIN bodyBytes.models : "quotaInfo" \notin DOMAIN bodyBytes.models[m]

\* A parser that takes a record without quotaInfo for one with full quota.
parseDefaultingToFullQuota(bodyBytes) ==
    [m \in DOMAIN bodyBytes.models |->
        IF "quotaInfo" \in DOMAIN bodyBytes.models[m]
        THEN bodyBytes.models[m].quotaInfo
        ELSE [remainingFraction |-> 1000000, resetTime |-> ZeroTime]]

\* parseAntigravityQuotaFromResponse: the quotaInfo of every record of the
\* models object that has one.
parseAntigravityQuotaFromResponse(bodyBytes) ==
    IF bodyBytes.kind # "models" THEN <<>>
    ELSE [m \in {x \in DOMAIN bodyBytes.models :
                    "quotaInfo" \in DOMAIN bodyBytes.models[x]} |->
            bodyBytes.models[m].quotaInfo]

\* The models of the bodies of two calls in a row: a member of a group, and a
\* model of no group.
CallModels == {"claude-sonnet-4-5-thinking", "gemini-2.5-pro"}

CallBodies ==
    {[kind |-> "models", models |-> f] :
        f \in UNION {[S -> {[quotaInfo |-> qi] : qi \in QuotaInfos}] : S \in SUBSET CallModels}}

\* Model states the request path can have left for those models: none, a
\* cooldown with the quota flag, a cooldown without it.
CallSeeds ==
    {<<>>,
     [k \in {"claude-sonnet-4-5-thinking"} |->
        [Status |-> "active", Unavailable |-> TRUE, NextRetryAfter |-> MaxTime,
         Quota |-> [Exceeded |-> TRUE, Reason |-> "quota", NextRecoverAt |-> MaxTime],
         UpdatedAt |-> 1]],
     [k \in {"gemini-2.5-pro"} |->
        [Status |-> "error", Unavailable |-> TRUE, NextRetryAfter |-> MaxTime,
         Quota |-> EmptyQuotaState, UpdatedAt |-> 1]]}

NoUpdate == [op |-> "none"]

\* No call yet, for an observer that also remembers the call before the last.
NoUpdateYet ==
    [op |-> "none", exhaustedGroups |-> <<>>,
     before |-> [exhaustedGroups |-> <<>>, states |-> <<>>]]

\* The lookups the tracker makes, tabulated over the names it can meet: the
\* reported models (first and third pass) and the group ids (second pass).
GroupIDOf == [m \in BodyModels \cup CallModels |-> GetAntigravityQuotaGroupID(m)]

GroupKeys == UNION {GroupIDOf[m] : m \in DOMAIN GroupIDOf}

GroupModelsOf == [g \in GroupKeys |-> GetAntigravityQuotaGroupModels(g)]

LookupGroupID(m) == GroupIDOf[m]

LookupGroupModels(g) == GroupModelsOf[g]

(***************************************************************************)
(* UpdateAntigravityQuotaState                                             *)
(***************************************************************************)
Exhausted(quotas) == {m \in DOMAIN quotas : quotas[m].remainingFraction <= ExhaustedThreshold}

\* resetTime taken as the body gave it, absent or not.
ResetAsGiven(qi, t) == qi.resetTime

\* resetTime, defaulted to now + 5 minutes when absent or in the past.
EffectiveReset(qi, t) ==
    IF qi.resetTime = ZeroTime \/ qi.resetTime < t THEN t + DefaultResetDelay ELSE qi.resetTime

\* First pass: exhaustedGroups, the latest reset time per group id; gid is
\* the group id each GetAntigravityQuotaGroupID call returned.
ExhaustedGroups(quotas, gid, t) ==
    [g \in {gid[m] : m \in Exhausted(quotas)} |->
        Max({EffectiveReset(quotas[m], t) : m \in {x \in Exhausted(quotas) : gid[x] = g}})]

\* The second pass writing the reset time whatever the state holds.
MarkUnavailableAlways(states, modelName, resetTime, t) ==
    LET state == IF modelName \in DOMAIN states THEN states[modelName] ELSE NewModelState
        marked == [state EXCEPT !.Unavailable = TRUE,
                                !.NextRetryAfter = resetTime,
                                !.Quota = [Exceeded |-> TRUE, Reason |-> "quota_exhausted",
                                           NextRecoverAt |-> resetTime],
                                !.UpdatedAt = t]
    IN  [k \in DOMAIN states \cup {modelName} |-> IF k = modelName THEN marked ELSE states[k]]

\* The body of the second pass for one model of an exhausted group.
MarkUnavailable(states, modelName, resetTime, t) ==
    LET state == IF modelName \in DOMAIN states THEN states[modelName] ELSE NewModelState
        marked == IF ~state.Unavailable \/ resetTime > state.NextRetryAfter
                  THEN [state EXCEPT !.Unavailable = TRUE,
                                     !.NextRetryAfter = resetTime,
                                     !.Quota = [Exceeded |-> TRUE, Reason |-> "quota_exhausted",
                                                NextRecoverAt |-> resetTime],
                                     !.UpdatedAt = t]
                  ELSE state
    IN  [k \in DOMAIN states \cup {modelName} |-> IF k = modelName THEN marked ELSE states[k]]

RECURSIVE MarkModels(_, _, _, _)
MarkModels(states, models, resetTime, t) ==
    IF models = {} THEN states
    ELSE LET m == CHOOSE x \in models : TRUE
         IN  MarkModels(MarkUnavailable(states, m, resetTime, t), models \ {m}, resetTime, t)

\* Second pass: every model of every exhausted group; members[g] is the list
\* GetAntigravityQuotaGroupModels(g) returned, replaced by [g] when it is empty.
RECURSIVE MarkGroups(_, _, _, _, _)
MarkGroups(states, groups, exhaustedGroups, members, t) ==
    IF groups = {} THEN states
    ELSE LET g == CHOOSE x \in groups : TRUE
             modelsInGroup == IF members[g] = {} \/ members[g] = {g} THEN {g} ELSE members[g]
         IN  MarkGroups(MarkModels(states, modelsInGroup, exhaustedGroups[g], t),
                        groups \ {g}, exhaustedGroups, members, t)

\* Third pass: clear the quota state of reported models that are not exhausted
\* and whose group (as resolved by this pass's lookup, gid) is not exhausted.
Recovered(states, quotas, exhaustedGroups, gid) ==
    {k \in DOMAIN states :
        /\ k \in DOMAIN quotas
        /\ quotas[k].remainingFraction > ExhaustedThreshold
        /\ gid[k] \notin DOMAIN exhaustedGroups
        /\ states[k].Quota.Exceeded}

\* ClearRecovered with the third pass lifting the block but leaving the quota
\* state as it was.
ClearRecoveredKeepingQuota(states, quotas, exhaustedGroups, gid, t) ==
    [k \in DOMAIN states |->
        IF k \in Recovered(states, quotas, exhaustedGroups, gid)
        THEN [states[k] EXCEPT !.Unavailable = FALSE, !.NextRetryAfter = ZeroTime,
                               !.UpdatedAt = t]
        ELSE states[k]]

ClearRecovered(states, quotas, exhaustedGroups, gid, t) ==
    [k \in DOMAIN states |->
        IF k \in Recovered(states, quotas, exhaustedGroups, gid)
        THEN [states[k] EXCEPT !.Unavailable = FALSE, !.NextRetryAfter = ZeroTime,
                               !.Quota = EmptyQuotaState, !.UpdatedAt = t]
        ELSE states[k]]

\* time.Timer.Stop: a timer that has not fired yet never fires; a timer whose
\* function has already been started is not affected.
StopTimer(ts, id) ==
    IF ts[id].st = "pending" THEN [ts EXCEPT ![id].st = "stopped"] ELSE ts

\* delete(globalQuotaScheduler.timers, authID)
DeleteTimer(tm, authID) == [a \in DOMAIN tm \ {authID} |-> tm[a]]

\* scheduleQuotaRefresh: the timer map and the timers after scheduling a
\* refresh.  A delay that is not positive becomes one second, which is
\* within the current time unit.
scheduleQuotaRefresh(tm, ts, authID, resetTime, t) ==
    IF authID = "" \/ resetTime = ZeroTime THEN [timers |-> tm, timerState |-> ts]
    ELSE LET refreshAt == resetTime + quotaRecoveryBuffer
             fireAt == IF refreshAt - t <= 0 THEN t ELSE refreshAt
             stopped == IF authID \in DOMAIN tm THEN StopTimer(ts, tm[authID]) ELSE ts
             created == Len(ts) + 1
         IN  [timers |-> [a \in DOMAIN tm \cup {authID} |->
                            IF a = authID THEN created ELSE tm[a]],
              timerState |-> Append(stopped, [auth |-> authID, fireAt |-> fireAt,
                                              st |-> "pending"])]

\* What is remembered of a call: the models the body reported, which of them
\* it reported exhausted, the exhausted groups with their reset times, and
\* the models whose quota state the third pass cleared.
\* An observer that remembers the call before as well keeps its exhausted
\* groups and the model states that call left.
Outcome(bodyBytes, quotas, exhaustedGroups, cleared) ==
    IF "before" \in DOMAIN lastUpdate
    THEN [op |-> "update", reported |-> DOMAIN quotas, exhausted |-> Exhausted(quotas),
          exhaustedGroups |-> exhaustedGroups, cleared |-> cleared,
          quotaless |-> Quotaless(bodyBytes),
          before |-> [exhaustedGroups |-> lastUpdate.exhaustedGroups,
                      states |-> ModelStates]]
    ELSE [op |-> "update", reported |-> DOMAIN quotas, exhausted |-> Exhausted(quotas),
          exhaustedGroups |-> exhaustedGroups, cleared |-> cleared,
          quotaless |-> Quotaless(bodyBytes)]

UpdateAntigravityQuotaState(bodyBytes) ==
    \E quotas \in {parseAntigravityQuotaFromResponse(bodyBytes)} :
    /\ calls < MaxCalls
    /\ calls' = calls + 1
    /\ UNCHANGED <<now, seeded>>
    /\ IF bodyBytes.kind = "empty" \/ DOMAIN quotas = {}
       THEN /\ UNCHANGED <<ModelStates, timers, timerState>>
            /\ lastUpdate' = Outcome(bodyBytes, quotas, <<>>, {})
       ELSE \E gid1 \in Choices(DOMAIN quotas, LookupGroupID),
               gid3 \in Choices(DOMAIN quotas, LookupGroupID) :
            LET exhaustedGroups == ExhaustedGroups(quotas, gid1, now)
            IN  \E members \in Choices(DOMAIN exhaustedGroups, LookupGroupModels) :
                  LET marked == MarkGroups(ModelStates, DOMAIN exhaustedGroups,
                                           exhaustedGroups, members, now)
                      latestResetTime ==
                          Max({ZeroTime} \cup {exhaustedGroups[g] : g \in DOMAIN exhaustedGroups})
                  IN  /\ ModelStates' = ClearRecovered(marked, quotas, exhaustedGroups, gid3, now)
                      /\ LET sched == scheduleQuotaRefresh(timers, timerState, AuthID,
                                                            latestResetTime, now)
                         IN  /\ timers' = sched.timers
                             /\ timerState' = sched.timerState
                      /\ lastUpdate' = Outcome(bodyBytes, quotas, exhaustedGroups,
                                              Recovered(marked, quotas, exhaustedGroups, gid3))

Update ==
    /\ \E bodyBytes \in ResponseBodies : UpdateAntigravityQuotaState(bodyBytes)
    /\ UNCHANGED <<selVars, rrVars, restVars>>

\* UpdateAntigravityQuotaState called with the bodies of two calls in a row.
UpdateInARow ==
    /\ \E bodyBytes \in CallBodies : UpdateAntigravityQuotaState(bodyBytes)
    /\ UNCHANGED <<selVars, rrVars, restVars>>

\* The runtime finds a timer due and starts its function in a goroutine of
\* its own; from here on Stop no longer prevents the function from running.
TimerExpire ==
    /\ \E id \in DOMAIN timerState :
        /\ timerState[id].st = "pending"
        /\ timerState[id].fireAt <= now
        /\ timerState' = [timerState EXCEPT ![id].st = "running"]
    /\ UNCHANGED <<now, ModelStates, timers, calls, seeded, lastUpdate>>
    /\ UNCHANGED <<selVars, rrVars, restVars>>

\* The function passed to time.AfterFunc: under the scheduler's mutex the
\* entry of the auth id is deleted, then the refresh function runs.
TimerCallback ==
    /\ \E id \in DOMAIN timerState :
        /\ timerState[id].st = "running"
        /\ timers' = DeleteTimer(timers, timerState[id].auth)
        /\ timerState' = [timerState EXCEPT ![id].st = "done"]
    /\ UNCHANGED <<now, ModelStates, calls, seeded, lastUpdate>>
    /\ UNCHANGED <<selVars, rrVars, restVars>>

\* CancelQuotaRefresh(authID): the body, under the scheduler's mutex.
CancelQuotaRefreshFor(authID) ==
    /\ authID # ""
    /\ authID \in DOMAIN timers
    /\ timerState' = StopTimer(timerState, timers[authID])
    /\ timers' = DeleteTimer(timers, authID)

\* CancelQuotaRefresh
CancelQuotaRefresh ==
    /\ CancelQuotaRefreshFor(AuthID)
    /\ UNCHANGED <<now, ModelStates, calls, seeded, lastUpdate>>
    /\ UNCHANGED <<selVars, rrVars, restVars>>

\* The clock advances.
Tick ==
    /\ now < MaxTime
    /\ now' = now + 1
    /\ UNCHANGED <<ModelStates, timers, timerState, calls, seeded, lastUpdate>>
    /\ UNCHANGED <<selVars, rrVars, restVars>>

TrackerInit ==
    /\ now = 1
    /\ ModelStates \in SeedStates
    /\ seeded = (DOMAIN ModelStates # {})
    /\ timers = <<>>
    /\ timerState = <<>>
    /\ calls = 0
    /\ lastUpdate = NoUpdate

(***************************************************************************)
(* Selector family.                                                        *)
(*                                                                         *)
(* Auth ids are strings compared lexicographically; an id is modelled by   *)
(* its rank (1 for "a", 2 for "b", ...).  All picks are for one provider   *)
(* and one model, so each cursor map has a single key.                     *)
(***************************************************************************)
AuthIDs == {1, 2, 3}

\* The nil *Auth a Pick returns with an error.
NoAuth == 0

MaxPicks == 3
MaxEnvSteps == 1

Unknown == [known |-> FALSE, Percent |-> 0, ResetDue |-> FALSE]

\* Quota entries.  Percent is counted in half percents; ResetDue says that a
\* reset time is recorded and is not later than now.
Percents == {0, 1, 2, 3}

QuotaEntries ==
    {Unknown} \cup
    {[known |-> TRUE, Percent |-> p, ResetDue |-> d] : p \in Percents, d \in {FALSE}} \cup
    {[known |-> TRUE, Percent |-> 3, ResetDue |-> TRUE]}

NoPick == [sel |-> "none"]

(***************************************************************************)
(* Sequences of auth ids.                                                  *)
(***************************************************************************)
Range(seq) == {seq[i] : i \in 1 .. Len(seq)}

RECURSIVE Insert(_, _)
Insert(x, sorted) ==
    IF sorted = <<>> THEN <<x>>
    ELSE IF x <= Head(sorted) THEN <<x>> \o sorted
    ELSE <<Head(sorted)>> \o Insert(x, Tail(sorted))

\* sort.Slice(available, func(i, j) { return available[i].ID < available[j].ID })
RECURSIVE SortByID(_)
SortByID(seq) == IF seq = <<>> THEN <<>> ELSE Insert(Head(seq), SortByID(Tail(seq)))

RECURSIVE FilterSeq(_, _)
FilterSeq(seq, keep) ==
    IF seq = <<>> THEN <<>>
    ELSE IF Head(seq) \in keep THEN <<Head(seq)>> \o FilterSeq(Tail(seq), keep)
    ELSE FilterSeq(Tail(seq), keep)

RECURSIVE Sum(_, _)
Sum(f, seq) == IF seq = <<>> THEN 0 ELSE f[Head(seq)] + Sum(f, Tail(seq))

(***************************************************************************)
(* The availability filter shared by all selectors.                        *)
(***************************************************************************)
\* isAuthBlockedForModel lifting the block one time unit early.
isAuthBlockedUntilBefore(states, id, t) == states[id] > t + 1

\* An auth is blocked for the model while its NextRetryAfter is in the future.
isAuthBlockedForModel(states, id, t) == states[id] > t

\* getAvailableAuths looking at the highest priority tier only, blocked or not:
\* an error when every auth of that tier is blocked.
getAvailableAuthsTopTierOnly(auths, prio, states, t) ==
    LET bestPriority == Max({prio[id] : id \in Range(auths)})
        top == {id \in Range(auths) :
                    prio[id] = bestPriority /\ ~isAuthBlockedForModel(states, id, t)}
    IN  IF top = {}
        THEN [err |-> "auth_not_found", available |-> <<>>]
        ELSE [err |-> "", available |-> SortByID(FilterSeq(auths, top))]

\* getAvailableAuths: the unblocked auths of the highest priority tier that
\* has one, in ascending id order; an error when there is none.
getAvailableAuths(auths, prio, states, t) ==
    LET unblocked == {id \in Range(auths) : ~isAuthBlockedForModel(states, id, t)}
    IN  IF unblocked = {}
        THEN [err |-> "auth_not_found", available |-> <<>>]
        ELSE LET bestPriority == Max({prio[id] : id \in unblocked})
             IN  [err |-> "",
                  available |-> SortByID(FilterSeq(auths,
                                    {id \in unblocked : prio[id] = bestPriority}))]

(***************************************************************************)
(* RoundRobinSelector and FillFirstSelector.                               *)
(***************************************************************************)
\* RoundRobinSelector.Pick indexing the available auths in the order the
\* caller passed them.
RoundRobinPickUnsorted(auths, cursor, prio, states, t) ==
    LET r == getAvailableAuths(auths, prio, states, t)
        unsorted == FilterSeq(auths, Range(r.available))
    IN  IF r.err # ""
        THEN [auth |-> NoAuth, err |-> r.err, cursor |-> cursor]
        ELSE [auth |-> unsorted[(cursor % Len(unsorted)) + 1], err |-> "",
              cursor |-> cursor + 1]

\* RoundRobinSelector.Pick: the auth returned and the cursor afterwards.
RoundRobinPick(auths, cursor, prio, states, t) ==
    LET r == getAvailableAuths(auths, prio, states, t)
    IN  IF r.err # ""
        THEN [auth |-> NoAuth, err |-> r.err, cursor |-> cursor]
        ELSE [auth |-> r.available[(cursor % Len(r.available)) + 1], err |-> "",
              cursor |-> cursor + 1]

\* FillFirstSelector.Pick returning the last available auth.
FillFirstPickLast(auths, prio, states, t) ==
    LET r == getAvailableAuths(auths, prio, states, t)
    IN  IF r.err # ""
        THEN [auth |-> NoAuth, err |-> r.err]
        ELSE [auth |-> r.available[Len(r.available)], err |-> ""]

\* FillFirstSelector.Pick
FillFirstPick(auths, prio, states, t) ==
    LET r == getAvailableAuths(auths, prio, states, t)
    IN  IF r.err # ""
        THEN [auth |-> NoAuth, err |-> r.err]
        ELSE [auth |-> r.available[1], err |-> ""]

(***************************************************************************)
(* QuotaWeightedSelector.                                                  *)
(***************************************************************************)
quotaUnknownWeight == 0
quotaWeightPower == 3

\* quotaToWeight: round(percent^3 * factor), where factor is 1 without a reset
\* time and 1 + quotaResetBoost (0.25) when the reset time is reached.
\* percent = p/2, so percent^3 = p^3/8; math.Round rounds halves up.
quotaToWeight(entry) ==
    LET p == IF entry.Percent > 200 THEN 200 ELSE entry.Percent
    IN  IF p <= 0 THEN 0
        ELSE IF entry.ResetDue THEN (10 * (p ^ quotaWeightPower) + 32) \div 64
        ELSE (2 * (p ^ quotaWeightPower) + 8) \div 16

\* weightFor: the weight and whether the quota is known.
weightFor(entry) ==
    IF entry.known THEN [weight |-> quotaToWeight(entry), known |-> TRUE]
    ELSE [weight |-> quotaUnknownWeight, known |-> FALSE]

\* The index of the first candidate with the highest current.
BestIndex(candidates, current) ==
    CHOOSE i \in 1 .. Len(candidates) :
        /\ \A j \in 1 .. Len(candidates) : current[candidates[j]] <= current[candidates[i]]
        /\ \A j \in 1 .. (i - 1) : current[candidates[j]] < current[candidates[i]]

\* The smooth step whose winner pays its own weight instead of the total.
SmoothStepPayingOwnWeight(candidates, weights, state) ==
    LET added == [id \in Range(candidates) |->
                    (IF id \in DOMAIN state THEN state[id] ELSE 0) + weights[id]]
        bestIdx == BestIndex(candidates, added)
        best == candidates[bestIdx]
    IN  [auth |-> best,
         cursors |-> [id \in Range(candidates) |->
                        IF id = best THEN added[id] - weights[id] ELSE added[id]]]

\* The smooth weighted round-robin step under the selector's mutex: every
\* candidate's current grows by its weight, the first highest one is chosen
\* and pays the total weight, and cursors of absent candidates are dropped.
SmoothStep(candidates, weights, state) ==
    LET totalWeight == Sum(weights, candidates)
        added == [id \in Range(candidates) |->
                    (IF id \in DOMAIN state THEN state[id] ELSE 0) + weights[id]]
        bestIdx == BestIndex(candidates, added)
        best == candidates[bestIdx]
    IN  [auth |-> best,
         cursors |-> [id \in Range(candidates) |->
                        IF id = best THEN added[id] - totalWeight ELSE added[id]]]

\* QuotaWeightedSelector.Pick weighting every unblocked auth passed in, of
\* whatever tier, instead of the list getAvailableAuths returned.
QuotaWeightedPickAllTiers(auths, state, fbCursor, prio, states, q, t) ==
    LET r == getAvailableAuths(auths, prio, states, t)
        w == [id \in AuthIDs |-> weightFor(q[id])]
        kept == {id \in Range(auths) : /\ ~isAuthBlockedForModel(states, id, t)
                                       /\ ~(w[id].known /\ w[id].weight <= 0)}
        candidates == SortByID(FilterSeq(auths, kept))
        weights == [id \in AuthIDs |-> w[id].weight]
        totalWeight == Sum(weights, candidates)
        unknownCount == Cardinality({id \in kept : ~w[id].known})
        NotFound == [auth |-> NoAuth, err |-> "auth_not_found", cursors |-> state,
                     fallbackCursor |-> fbCursor]
    IN  IF r.err # "" THEN [NotFound EXCEPT !.err = r.err]
        ELSE IF Len(candidates) = 0 THEN NotFound
        ELSE IF totalWeight <= 0
        THEN IF unknownCount > 0
             THEN LET f == RoundRobinPick(candidates, fbCursor, prio, states, t)
                  IN  [auth |-> f.auth, err |-> f.err, cursors |-> state,
                       fallbackCursor |-> f.cursor]
             ELSE NotFound
        ELSE LET step == SmoothStep(candidates, weights, state)
             IN  [auth |-> step.auth, err |-> "", cursors |-> step.cursors,
                  fallbackCursor |-> fbCursor]

\* QuotaWeightedSelector.Pick
QuotaWeightedPick(auths, state, fbCursor, prio, states, q, t) ==
    LET r == getAvailableAuths(auths, prio, states, t)
        w == [id \in AuthIDs |-> weightFor(q[id])]
        kept == {id \in Range(r.available) : ~(w[id].known /\ w[id].weight <= 0)}
        candidates == FilterSeq(r.available, kept)
        weights == [id \in AuthIDs |-> w[id].weight]
        totalWeight == Sum(weights, candidates)
        unknownCount == Cardinality({id \in kept : ~w[id].known})
        NotFound == [auth |-> NoAuth, err |-> "auth_not_found", cursors |-> state,
                     fallbackCursor |-> fbCursor]
    IN  IF r.err # "" THEN [NotFound EXCEPT !.err = r.err]
        ELSE IF Len(candidates) = 0 THEN NotFound
        ELSE IF totalWeight <= 0
        THEN IF unknownCount > 0
             THEN LET f == RoundRobinPick(candidates, fbCursor, prio, states, t)
                  IN  [auth |-> f.auth, err |-> f.err, cursors |-> state,
                       fallbackCursor |-> f.cursor]
             ELSE NotFound
        ELSE LET step == SmoothStep(candidates, weights, state)
             IN  [auth |-> step.auth, err |-> "", cursors |-> step.cursors,
                  fallbackCursor |-> fbCursor]

(***************************************************************************)
(* QuotaWeightedSelector as defined in sdk/cliproxy/auth/quota_selector.go *)
(* (the variant with quotaWeightScale).                                    *)
(***************************************************************************)
quotaWeightScale == 100
quotaUnknownWeightScaled == 100

\* percentToWeight: round(percent * quotaWeightScale); percent = p/2.
percentToWeight(p) ==
    IF p <= 0 THEN 0
    ELSE ((IF p > 200 THEN 200 ELSE p) * quotaWeightScale) \div 2

\* weightFor of that variant: an unknown quota weighs quotaUnknownWeight.
weightForScaled(entry) ==
    IF entry.known THEN percentToWeight(entry.Percent) ELSE quotaUnknownWeightScaled

\* QuotaWeightedSelector.Pick of that variant.
QuotaWeightedPickScaled(auths, state, fbCursor, prio, states, q, t) ==
    LET r == getAvailableAuths(auths, prio, states, t)
        weights == [id \in AuthIDs |-> weightForScaled(q[id])]
        totalWeight == Sum(weights, r.available)
    IN  IF r.err # ""
        THEN [auth |-> NoAuth, err |-> r.err, cursors |-> state, fallbackCursor |-> fbCursor]
        ELSE IF totalWeight <= 0
        THEN LET f == RoundRobinPick(auths, fbCursor, prio, states, t)
             IN  [auth |-> f.auth, err |-> f.err, cursors |-> state,
                  fallbackCursor |-> f.cursor]
        ELSE LET step == SmoothStep(r.available, weights, state)
             IN  [auth |-> step.auth, err |-> "", cursors |-> step.cursors,
                  fallbackCursor |-> fbCursor]

(***************************************************************************)
(* Selector actions.                                                       *)
(***************************************************************************)
\* What is remembered of a Pick: the selector, the result, and the auths,
\* quota entries and blocks the call saw.
Picked(sel, auth, err) ==
    [sel |-> sel, auth |-> auth, err |-> err, quota |-> quota,
     unblocked |-> {id \in AuthIDs : authState[id] <= now},
     steady |-> (envSteps = 0 /\ now = 1),
     only |-> (lastPick.sel = "none" \/ (lastPick.sel = sel /\ lastPick.only))]

\* The orders in which callers pass the auths: b, a, c as in the tests,
\* ascending, and descending.
AuthOrders == {<<2, 1, 3>>, <<1, 2, 3>>, <<3, 2, 1>>}

PickRoundRobin ==
    /\ picks < MaxPicks
    /\ \E auths \in AuthOrders :
        LET r == RoundRobinPick(auths, rrCursor, priority, authState, now)
        IN  /\ rrCursor' = r.cursor
            /\ lastPick' = Picked("round-robin", r.auth, r.err)
    /\ picks' = picks + 1
    /\ UNCHANGED <<priority, authState, quota, fallbackCursor, cursors, envSteps>>
    /\ UNCHANGED <<trackerVars, rrVars, restVars>>

PickFillFirst ==
    /\ picks < MaxPicks
    /\ \E auths \in AuthOrders :
        LET r == FillFirstPick(auths, priority, authState, now)
        IN  lastPick' = Picked("fill-first", r.auth, r.err)
    /\ picks' = picks + 1
    /\ UNCHANGED <<priority, authState, quota, rrCursor, fallbackCursor, cursors, envSteps>>
    /\ UNCHANGED <<trackerVars, rrVars, restVars>>

PickQuotaWeighted ==
    /\ picks < MaxPicks
    /\ \E auths \in AuthOrders :
        LET r == QuotaWeightedPick(auths, cursors, fallbackCursor, priority, authState,
                                   quota, now)
        IN  /\ cursors' = r.cursors
            /\ fallbackCursor' = r.fallbackCursor
            /\ lastPick' = Picked("quota-weighted", r.auth, r.err)
    /\ picks' = picks + 1
    /\ UNCHANGED <<priority, authState, quota, rrCursor, envSteps>>
    /\ UNCHANGED <<trackerVars, rrVars, restVars>>

PickQuotaWeightedScaled ==
    /\ picks < MaxPicks
    /\ \E auths \in AuthOrders :
        LET r == QuotaWeightedPickScaled(auths, cursors, fallbackCursor, priority, authState,
                                         quota, now)
        IN  /\ cursors' = r.cursors
            /\ fallbackCursor' = r.fallbackCursor
            /\ lastPick' = Picked("quota-weighted", r.auth, r.err)
    /\ picks' = picks + 1
    /\ UNCHANGED <<priority, authState, quota, rrCursor, envSteps>>
    /\ UNCHANGED <<trackerVars, rrVars, restVars>>

\* Windows of picks a caller makes against one key while nothing changes.
MaxWindows == 2

\* The two files that define QuotaWeightedSelector.
SelectorFiles == {"part_004", "quota_selector.go"}

\* The weights Pick computes for the auths, by file.
PickWeights(file, q) ==
    [id \in AuthIDs |-> IF file = "part_004" THEN weightFor(q[id]).weight
                                            ELSE weightForScaled(q[id])]

\* The sum of the weights of the auths of the highest available tier.
PickTotal(file, prio, q) ==
    Sum(PickWeights(file, q),
        SortByID(FilterSeq(<<1, 2, 3>>,
                           {id \in AuthIDs : prio[id] = Max({prio[x] : x \in AuthIDs})})))

\* A caller that keeps calling QuotaWeightedSelector.Pick for one key while
\* blocks and quota stay as they are, and writes down what it was given.
PickSteady ==
    /\ "history" \in DOMAIN lastPick
    /\ Len(lastPick.history) < MaxWindows * PickTotal(lastPick.file, priority, quota)
    /\ \E auths \in AuthOrders :
        \E r \in {IF lastPick.file = "part_004"
                  THEN QuotaWeightedPick(auths, cursors, fallbackCursor, priority,
                                         authState, quota, now)
                  ELSE QuotaWeightedPickScaled(auths, cursors, fallbackCursor, priority,
                                               authState, quota, now)} :
            /\ cursors' = r.cursors
            /\ fallbackCursor' = r.fallbackCursor
            /\ lastPick' = [lastPick EXCEPT !.history = Append(@, r.auth)]
    /\ picks' = picks + 1
    /\ UNCHANGED <<priority, authState, quota, rrCursor, envSteps>>
    /\ UNCHANGED <<trackerVars, rrVars, restVars>>

\* The poller or the store changes what is known of an auth's quota.
SetQuota ==
    /\ envSteps < MaxEnvSteps
    /\ \E id \in AuthIDs, entry \in QuotaEntries :
        /\ entry # quota[id]
        /\ quota' = [quota EXCEPT ![id] = entry]
    /\ envSteps' = envSteps + 1
    /\ UNCHANGED <<priority, authState, rrCursor, fallbackCursor, cursors, picks, lastPick>>
    /\ UNCHANGED <<trackerVars, rrVars, restVars>>

\* The request path puts an auth in cooldown for the model.
Cooldown ==
    /\ envSteps < MaxEnvSteps
    /\ \E id \in AuthIDs :
        /\ authState[id] <= now
        /\ authState' = [authState EXCEPT ![id] = now + 1]
    /\ envSteps' = envSteps + 1
    /\ UNCHANGED <<priority, quota, rrCursor, fallbackCursor, cursors, picks, lastPick>>
    /\ UNCHANGED <<trackerVars, rrVars, restVars>>

\* The clock advances while the selectors run.
SelTick ==
    /\ envSteps < MaxEnvSteps
    /\ now' = now + 1
    /\ envSteps' = envSteps + 1
    /\ UNCHANGED <<ModelStates, timers, timerState, calls, seeded, lastUpdate>>
    /\ UNCHANGED <<priority, authState, quota, rrCursor, fallbackCursor, cursors, picks,
                   lastPick>>
    /\ UNCHANGED <<rrVars, restVars>>

\* Priorities of the three auths: one tier, two auths above the third, one
\* auth above the other two.
PriorityConfigs == {<<0, 0, 0>>, <<10, 10, 0>>, <<10, 0, 0>>}

Known(p, due) == [known |-> TRUE, Percent |-> p, ResetDue |-> due]

\* What is known of the three auths' quota when the selectors start: nothing
\* (the poller is warming up), all exhausted, and mixes of known and unknown.
QuotaConfigs ==
    {[id \in AuthIDs |-> Unknown],
     [id \in AuthIDs |-> Known(0, FALSE)],
     <<Known(2, FALSE), Known(2, FALSE), Unknown>>,
     <<Unknown, Known(3, TRUE), Known(2, FALSE)>>,
     <<Known(1, FALSE), Unknown, Known(0, FALSE)>>}

\* The blocks the auths carry when the selectors start: none, or every
\* auth in cooldown until the next time unit.
BlockConfigs == {[id \in AuthIDs |-> ZeroTime], [id \in AuthIDs |-> 2]}

SelInit ==
    /\ priority \in PriorityConfigs
    /\ authState \in BlockConfigs
    /\ quota \in QuotaConfigs
    /\ rrCursor = 0
    /\ fallbackCursor = 0
    /\ cursors = <<>>
    /\ picks = 0
    /\ envSteps = 0
    /\ lastPick = NoPick

(***************************************************************************)
(* Concurrent RoundRobinSelector.Pick calls.  A call filters the auths,   *)
(* then reads and advances the cursor under the selector's mutex, then    *)
(* returns the auth at the index it read.                                 *)
(***************************************************************************)
Goroutines == {1, 2, 3}

MaxStarts == 6

NoLocal == [available |-> <<>>, err |-> "", index |-> 0]

\* The cursor left where it was.
StuckCursor(cursor) == cursor

\* The cursor after a Pick has taken its index.
AdvanceCursor(cursor) == cursor + 1

\* available, err := getAvailableAuths(auths, provider, model, now)
RRFilter(g) ==
    /\ pc[g] = "idle"
    /\ picks < MaxStarts
    /\ picks' = picks + 1
    /\ \E auths \in AuthOrders :
        LET r == getAvailableAuths(auths, priority, authState, now)
        IN  local' = [local EXCEPT ![g] = [available |-> r.available, err |-> r.err,
                                           index |-> 0]]
    /\ pc' = [pc EXCEPT ![g] = "filtered"]
    /\ UNCHANGED <<returned, failed, trackerVars, restVars>>
    /\ UNCHANGED <<priority, authState, quota, rrCursor, fallbackCursor, cursors, envSteps,
                   lastPick>>

\* s.mu.Lock(); index := s.cursors[key]; s.cursors[key] = index + 1; s.mu.Unlock()
RRAdvance(g) ==
    /\ pc[g] = "filtered"
    /\ local[g].err = ""
    /\ local' = [local EXCEPT ![g].index = rrCursor]
    /\ rrCursor' = AdvanceCursor(rrCursor)
    /\ pc' = [pc EXCEPT ![g] = "indexed"]
    /\ UNCHANGED <<returned, failed, trackerVars, restVars>>
    /\ UNCHANGED <<priority, authState, quota, fallbackCursor, cursors, picks, envSteps,
                   lastPick>>

\* return available[index % len(available)], nil
RRReturn(g) ==
    /\ pc[g] = "indexed"
    /\ LET id == local[g].available[(local[g].index % Len(local[g].available)) + 1]
       IN  returned' = [returned EXCEPT ![id] = @ + 1]
    /\ pc' = [pc EXCEPT ![g] = "idle"]
    /\ local' = [local EXCEPT ![g] = NoLocal]
    /\ UNCHANGED <<failed, trackerVars, selVars, restVars>>

\* return nil, err
RRFail(g) ==
    /\ pc[g] = "filtered"
    /\ local[g].err # ""
    /\ failed' = TRUE
    /\ pc' = [pc EXCEPT ![g] = "idle"]
    /\ local' = [local EXCEPT ![g] = NoLocal]
    /\ UNCHANGED <<returned, trackerVars, selVars, restVars>>

RRIdle ==
    /\ pc = [g \in Goroutines |-> "idle"]
    /\ local = [g \in Goroutines |-> NoLocal]
    /\ returned = [id \in AuthIDs |-> 0]
    /\ failed = FALSE

(***************************************************************************)
(* UpdateAntigravityQuotaState step by step, on a heap: auth.ModelStates   *)
(* is a reference to a map whose values are references to ModelState       *)
(* objects, and a reader may load the reference at any moment.             *)
(***************************************************************************)
MaxCowUpdates == 2

\* No map loaded yet.
NoMap == 0

NoULocal == [quotas |-> <<>>, exhaustedGroups |-> <<>>, newModelStates |-> NoMap]

\* The keys of a map in the order a range loop happens to visit them.
RECURSIVE KeySeq(_)
KeySeq(S) ==
    IF S = {} THEN <<>>
    ELSE LET k == CHOOSE x \in S : TRUE IN <<k>> \o KeySeq(S \ {k})

Pos(seq, k) == CHOOSE i \in 1 .. Len(seq) : seq[i] = k

\* What a reader holding map mc sees: model key -> ModelState.
View(h, mc) == [k \in DOMAIN mc |-> h[mc[k]]]

\* ModelState.Clone: a new object with the fields of the given one, sharing
\* nothing with it.
Clone(state) ==
    [Status |-> state.Status, Unavailable |-> state.Unavailable,
     NextRetryAfter |-> state.NextRetryAfter,
     Quota |-> [Exceeded |-> state.Quota.Exceeded, Reason |-> state.Quota.Reason,
                NextRecoverAt |-> state.Quota.NextRecoverAt],
     UpdatedAt |-> state.UpdatedAt]

\* The copy with newModelStates[k] = v: the new map points to the objects of
\* the old one.
CopyModelStatesShared(h, mc) == [heap |-> h, map |-> mc]

\* newModelStates: a new map whose entries are clones of the entries of mc.
CopyModelStates(h, mc) ==
    LET keys == KeySeq(DOMAIN mc)
    IN  [heap |-> h \o [i \in 1 .. Len(keys) |-> Clone(h[mc[keys[i]]])],
         map |-> [k \in DOMAIN mc |-> Len(h) + Pos(keys, k)]]

\* The writes of a pass through the pointers of map mc: the object of every
\* key of mc takes the fields the pass gave it, and a key the pass added gets
\* a new object.
WriteStates(h, mc, states) ==
    LET added == KeySeq(DOMAIN states \ DOMAIN mc)
        written == [i \in 1 .. Len(h) |->
                      IF \E k \in DOMAIN mc : mc[k] = i
                      THEN states[CHOOSE k \in DOMAIN mc : mc[k] = i]
                      ELSE h[i]]
    IN  [heap |-> written \o [i \in 1 .. Len(added) |-> states[added[i]]],
         map |-> [k \in DOMAIN states |->
                    IF k \in DOMAIN mc THEN mc[k] ELSE Len(h) + Pos(added, k)]]

\* The call up to the copy: parse, first pass, newModelStates.
UpdateCopy ==
    /\ upc = "idle"
    /\ cowCalls < MaxCowUpdates
    /\ cowCalls' = cowCalls + 1
    /\ \E quotas \in QuotaMaps :
        IF DOMAIN quotas = {}
        THEN UNCHANGED <<heap, maps, upc, ulocal>>
        ELSE \E gid1 \in Choices(DOMAIN quotas, LookupGroupID) :
            LET copy == CopyModelStates(heap, maps[authMap])
            IN  /\ heap' = copy.heap
                /\ maps' = Append(maps, copy.map)
                /\ ulocal' = [quotas |-> quotas,
                              exhaustedGroups |-> ExhaustedGroups(quotas, gid1, now),
                              newModelStates |-> Len(maps) + 1]
                /\ upc' = "copied"
    /\ UNCHANGED <<authMap, reader, publishedViews>>
    /\ UNCHANGED <<trackerVars, selVars, rrVars, laterVars>>

\* The second pass and the scheduling of the refresh.
UpdateMark ==
    /\ upc = "copied"
    /\ \E members \in Choices(DOMAIN ulocal.exhaustedGroups, LookupGroupModels) :
        LET new == ulocal.newModelStates
            marked == MarkGroups(View(heap, maps[new]), DOMAIN ulocal.exhaustedGroups,
                                 ulocal.exhaustedGroups, members, now)
            w == WriteStates(heap, maps[new], marked)
            latestResetTime ==
                Max({ZeroTime} \cup {ulocal.exhaustedGroups[g] :
                                        g \in DOMAIN ulocal.exhaustedGroups})
            sched == scheduleQuotaRefresh(timers, timerState, AuthID, latestResetTime, now)
        IN  /\ heap' = w.heap
            /\ maps' = [maps EXCEPT ![new] = w.map]
            /\ timers' = sched.timers
            /\ timerState' = sched.timerState
    /\ upc' = "marked"
    /\ UNCHANGED <<authMap, ulocal, reader, publishedViews, cowCalls>>
    /\ UNCHANGED <<now, ModelStates, calls, seeded, lastUpdate, selVars, rrVars, laterVars>>

\* The third pass.
UpdateClear ==
    /\ upc = "marked"
    /\ \E gid3 \in Choices(DOMAIN ulocal.quotas, LookupGroupID) :
        LET new == ulocal.newModelStates
            cleared == ClearRecovered(View(heap, maps[new]), ulocal.quotas,
                                      ulocal.exhaustedGroups, gid3, now)
            w == WriteStates(heap, maps[new], cleared)
        IN  /\ heap' = w.heap
            /\ maps' = [maps EXCEPT ![new] = w.map]
    /\ upc' = "cleared"
    /\ UNCHANGED <<authMap, ulocal, reader, publishedViews, cowCalls>>
    /\ UNCHANGED <<trackerVars, selVars, rrVars, laterVars>>

\* auth.ModelStates = newModelStates
UpdatePublish ==
    /\ upc = "cleared"
    /\ authMap' = ulocal.newModelStates
    /\ publishedViews' = publishedViews \cup {View(heap, maps[ulocal.newModelStates])}
    /\ upc' = "idle"
    /\ ulocal' = NoULocal
    /\ UNCHANGED <<heap, maps, reader, cowCalls>>
    /\ UNCHANGED <<trackerVars, selVars, rrVars, laterVars>>

\* A reader loads auth.ModelStates; it may look at the entries at any later
\* moment.
ReaderLoad ==
    /\ reader' = [ref |-> authMap, seen |-> View(heap, maps[authMap])]
    /\ UNCHANGED <<heap, maps, authMap, upc, ulocal, publishedViews, cowCalls>>
    /\ UNCHANGED <<trackerVars, selVars, rrVars, laterVars>>

\* The heap of an auth that carries the model states seed.
SeedHeap(seed) == [i \in 1 .. Len(KeySeq(DOMAIN seed)) |-> seed[KeySeq(DOMAIN seed)[i]]]

SeedMap(seed) == [k \in DOMAIN seed |-> Pos(KeySeq(DOMAIN seed), k)]

CowStart ==
    /\ \E seed \in SeedStates :
        /\ heap = SeedHeap(seed)
        /\ maps = <<SeedMap(seed)>>
        /\ publishedViews = {seed}
    /\ authMap = 1
    /\ upc = "idle"
    /\ ulocal = NoULocal
    /\ reader = [ref |-> NoMap, seen |-> <<>>]
    /\ cowCalls = 0

CowIdle ==
    /\ heap = <<>>
    /\ maps = << <<>> >>
    /\ publishedViews = {<<>>}
    /\ authMap = 1
    /\ upc = "idle"
    /\ ulocal = NoULocal
    /\ reader = [ref |-> NoMap, seen |-> <<>>]
    /\ cowCalls = 0

(***************************************************************************)
(* The quota store (sdk/cliproxy/quota): NormalizeModelKey, Store.Set,     *)
(* GetPercent, GetEntry, Delete, Flush and saveLocked, with the two files  *)
(* saveLocked touches.                                                     *)
(***************************************************************************)
MaxStoreOps == 2

schemaVersion == 1

Chr(s, i) == SubSeq(s, i, i)

\* strings.TrimSpace, for the one white-space character the inputs use.
RECURSIVE TrimLeft(_)
TrimLeft(s) ==
    IF Len(s) > 0 /\ Chr(s, 1) = " " THEN TrimLeft(SubSeq(s, 2, Len(s))) ELSE s

RECURSIVE TrimRight(_)
TrimRight(s) ==
    IF Len(s) > 0 /\ Chr(s, Len(s)) = " " THEN TrimRight(SubSeq(s, 1, Len(s) - 1)) ELSE s

TrimSpace(s) == TrimRight(TrimLeft(s))

\* strings.LastIndex for a one-character separator, counted from 1; 0 when
\* the separator does not occur (Go: -1).
LastIndex(s, c) == Max({0} \cup {i \in 1 .. Len(s) : Chr(s, i) = c})

UpperLetters == "ABCDEFGHIJKLMNOPQRSTUVWXYZ"

LowerLetters == "abcdefghijklmnopqrstuvwxyz"

LowerChar(c) ==
    IF \E i \in 1 .. Len(UpperLetters) : Chr(UpperLetters, i) = c
    THEN Chr(LowerLetters, CHOOSE i \in 1 .. Len(UpperLetters) : Chr(UpperLetters, i) = c)
    ELSE c

\* strings.ToLower
RECURSIVE ToLower(_)
ToLower(s) ==
    IF Len(s) = 0 THEN "" ELSE LowerChar(Chr(s, 1)) \o ToLower(SubSeq(s, 2, Len(s)))

\* thinking.ParseSuffix(model).ModelName: the model name without its
\* thinking-suffix marker.
ParseSuffix(model) == TrimSuffix(model, "-thinking")

NormalizeModelKey(model) ==
    LET trimmed == TrimSpace(model)
        parsed == ParseSuffix(trimmed)
        named == IF parsed # "" THEN parsed ELSE trimmed
        idx == LastIndex(named, "/")
        base == TrimSpace(IF idx >= 1 THEN SubSeq(named, idx + 1, Len(named)) ELSE named)
    IN  IF trimmed = "" THEN ""
        ELSE IF base = "" THEN ""
        ELSE ToLower(base)

clampPercent(value) ==
    IF value < 0 THEN 0 ELSE IF value > 100 THEN 100 ELSE value

\* out[key] = entry on a Go map.
PutKey(out, key, entry) ==
    [k \in DOMAIN out \cup {key} |-> IF k = key THEN entry ELSE out[k]]

\* The orders in which a range loop may visit the keys of a map.
Orders(S) ==
    {o \in [1 .. Cardinality(S) -> S] : \A i, j \in DOMAIN o : i # j => o[i] # o[j]}

\* normalizeModelQuotaMap's loop, visiting the raw keys in the given order.
RECURSIVE NormalizeInOrder(_, _, _)
NormalizeInOrder(models, order, out) ==
    IF order = <<>> THEN out
    ELSE
        LET rawKey == Head(order)
            key == NormalizeModelKey(rawKey)
            entry == [models[rawKey] EXCEPT !.Percent = clampPercent(@)]
            skip == \/ key = ""
                    \/ key \in DOMAIN out /\ entry.Percent <= out[key].Percent
        IN  NormalizeInOrder(models, Tail(order),
                             IF skip THEN out ELSE PutKey(out, key, entry))

\* The maps normalizeModelQuotaMap may return: one per iteration order.
normalizeModelQuotaMap(models) ==
    {NormalizeInOrder(models, o, <<>>) : o \in Orders(DOMAIN models)}

\* An equality that also compares ModelQuota.UpdatedAt.
modelQuotaMapEqualWithUpdatedAt(a, b) == a = b

modelQuotaMapEqual(a, b) ==
    /\ Cardinality(DOMAIN a) = Cardinality(DOMAIN b)
    /\ \A key \in DOMAIN a :
        /\ key \in DOMAIN b
        /\ a[key].Percent = b[key].Percent
        /\ a[key].ResetTime = b[key].ResetTime

(***************************************************************************)
(* Inputs of the store calls.                                              *)
(***************************************************************************)
StoreAuthIDs == {"auth-1", "auth-2"}

Providers == {"codex", "antigravity"}

MQ(percent, resetTime, updatedAt) ==
    [Percent |-> percent, UpdatedAt |-> updatedAt, ResetTime |-> resetTime]

\* The models arguments of Set: raw keys that need normalizing, percents
\* out of range, raw keys that collide, keys that normalize to nothing.
ModelMaps ==
    { (" " :> MQ(50, ZeroTime, 1)),
      ("gpt-4" :> MQ(50, ZeroTime, 1)),
      ("models/GPT-4 " :> MQ(50, ZeroTime, 2)),
      ("gpt-4" :> MQ(150, ZeroTime, 1)) @@ ("*" :> MQ(0 - 5, ZeroTime, 1)),
      ("gpt-4" :> MQ(50, ZeroTime, 1)) @@ ("models/GPT-4 " :> MQ(50, 3, 1)) }

NormalizedMaps == [models \in ModelMaps |-> normalizeModelQuotaMap(models)]

\* The model arguments of GetPercent.
LookupModels == {"models/GPT-4 ", "gemini-pro", ""}

NoEntry == [Provider |-> "", UpdatedAt |-> ZeroTime, Models |-> <<>>]

NoFile == [exists |-> FALSE, complete |-> FALSE, SchemaVersion |-> 0, AuthQuotas |-> <<>>]

\* json.MarshalIndent(s.data) written to a file in full, or only in part.
FileOf(q, complete) ==
    [exists |-> TRUE, complete |-> complete, SchemaVersion |-> schemaVersion,
     AuthQuotas |-> q]

\* Store.load: the AuthQuotas of the file at filePath; nothing when the file
\* is missing or json.Unmarshal fails on it.
load(file) ==
    IF file.exists /\ file.complete THEN file.AuthQuotas ELSE <<>>

(***************************************************************************)
(* The store calls as functions of the store's data.                       *)
(***************************************************************************)
\* A lookup that prefers the wildcard key to the per-model key.
GetPercentWildcardFirst(q, authID, model) ==
    IF authID \notin DOMAIN q THEN [percent |-> 0, ok |-> FALSE]
    ELSE
        LET entry == q[authID]
            key == NormalizeModelKey(model)
            lookup == IF key = "" THEN "*" ELSE key
        IN  IF "*" \in DOMAIN entry.Models
            THEN [percent |-> clampPercent(entry.Models["*"].Percent), ok |-> TRUE]
            ELSE IF lookup \in DOMAIN entry.Models
            THEN [percent |-> clampPercent(entry.Models[lookup].Percent), ok |-> TRUE]
            ELSE [percent |-> 0, ok |-> FALSE]

GetPercent(q, authID, model) ==
    IF authID \notin DOMAIN q THEN [percent |-> 0, ok |-> FALSE]
    ELSE
        LET entry == q[authID]
            key == NormalizeModelKey(model)
            lookup == IF key = "" THEN "*" ELSE key
        IN  IF lookup \in DOMAIN entry.Models
            THEN [percent |-> clampPercent(entry.Models[lookup].Percent), ok |-> TRUE]
            ELSE IF "*" \in DOMAIN entry.Models
            THEN [percent |-> clampPercent(entry.Models["*"].Percent), ok |-> TRUE]
            ELSE [percent |-> 0, ok |-> FALSE]

GetEntry(q, authID) ==
    IF authID \in DOMAIN q
    THEN [entry |-> q[authID], ok |-> TRUE]
    ELSE [entry |-> NoEntry, ok |-> FALSE]

\* Store.Set after normalizeModelQuotaMap returned normalized.
SetEntry(q, d, authID, provider, models, normalized, updatedAt) ==
    IF authID = "" \/ DOMAIN models = {} \/ DOMAIN normalized = {}
    THEN [AuthQuotas |-> q, dirty |-> d, ret |-> FALSE]
    ELSE IF /\ authID \in DOMAIN q
            /\ q[authID].Provider = provider
            /\ modelQuotaMapEqual(q[authID].Models, normalized)
    THEN [AuthQuotas |-> q, dirty |-> d, ret |-> FALSE]
    ELSE [AuthQuotas |->
              PutKey(q, authID,
                     [Provider |-> provider, UpdatedAt |-> updatedAt,
                      Models |-> normalized]),
          dirty |-> TRUE, ret |-> TRUE]

\* A Delete that marks the store dirty whether or not an entry existed.
DeleteEntryAlwaysDirty(q, d, authID) ==
    IF authID = "" THEN [AuthQuotas |-> q, dirty |-> d]
    ELSE [AuthQuotas |-> [k \in DOMAIN q \ {authID} |-> q[k]], dirty |-> TRUE]

\* Store.Delete
DeleteEntry(q, d, authID) ==
    IF authID = "" THEN [AuthQuotas |-> q, dirty |-> d]
    ELSE IF authID \in DOMAIN q
    THEN [AuthQuotas |-> [k \in DOMAIN q \ {authID} |-> q[k]], dirty |-> TRUE]
    ELSE [AuthQuotas |-> q, dirty |-> d]

(***************************************************************************)
(* The store calls as steps.  Every call holds Store.mu, so a call starts  *)
(* only when no Flush is under way.                                        *)
(***************************************************************************)
StoreState == [AuthQuotas |-> AuthQuotas, dirty |-> dirty, files |-> files]

\* The record of a call: its arguments, its results, the store before it and
\* the call made before it.
Op(op, authID, model, provider, normalized, ok, percent, entry, err) ==
    [op |-> op, authID |-> authID, model |-> model, provider |-> provider,
     normalized |-> normalized, ok |-> ok, percent |-> percent, entry |-> entry,
     err |-> err, pre |-> StoreState,
     prev |-> [op |-> lastOp.op, authID |-> lastOp.authID,
               provider |-> lastOp.provider, normalized |-> lastOp.normalized,
               ok |-> lastOp.ok]]

NoOp ==
    [op |-> "", authID |-> "", model |-> "", provider |-> "", normalized |-> <<>>,
     ok |-> FALSE, percent |-> 0, entry |-> NoEntry, err |-> FALSE,
     pre |-> [AuthQuotas |-> <<>>, dirty |-> FALSE,
              files |-> [target |-> NoFile, tmp |-> NoFile]],
     prev |-> [op |-> "", authID |-> "", provider |-> "", normalized |-> <<>>,
               ok |-> FALSE]]

Set ==
    /\ spc = "idle"
    /\ storeOps < MaxStoreOps
    /\ \E authID \in StoreAuthIDs, provider \in Providers, models \in ModelMaps :
        \E normalized \in NormalizedMaps[models] :
            LET r == SetEntry(AuthQuotas, dirty, authID, provider, models,
                              normalized, storeOps + 1)
            IN  /\ AuthQuotas' = r.AuthQuotas
                /\ dirty' = r.dirty
                /\ lastOp' = Op("Set", authID, "", provider, normalized, r.ret, 0,
                                NoEntry, FALSE)
                /\ deletedSince' = deletedSince \ {authID}
    /\ storeOps' = storeOps + 1
    /\ UNCHANGED <<files, spc>>
    /\ UNCHANGED nonStoreVars

ReadPercent ==
    /\ spc = "idle"
    /\ storeOps < MaxStoreOps
    /\ \E authID \in StoreAuthIDs, model \in LookupModels :
        LET r == GetPercent(AuthQuotas, authID, model)
        IN  lastOp' = Op("GetPercent", authID, model, "", <<>>, r.ok, r.percent,
                         NoEntry, FALSE)
    /\ storeOps' = storeOps + 1
    /\ UNCHANGED <<AuthQuotas, dirty, files, spc, deletedSince>>
    /\ UNCHANGED nonStoreVars

ReadEntry ==
    /\ spc = "idle"
    /\ storeOps < MaxStoreOps
    /\ \E authID \in StoreAuthIDs :
        LET r == GetEntry(AuthQuotas, authID)
        IN  lastOp' = Op("GetEntry", authID, "", "", <<>>, r.ok, 0, r.entry, FALSE)
    /\ storeOps' = storeOps + 1
    /\ UNCHANGED <<AuthQuotas, dirty, files, spc, deletedSince>>
    /\ UNCHANGED nonStoreVars

Delete ==
    /\ spc = "idle"
    /\ storeOps < MaxStoreOps
    /\ \E authID \in StoreAuthIDs :
        LET r == DeleteEntry(AuthQuotas, dirty, authID)
        IN  /\ AuthQuotas' = r.AuthQuotas
            /\ dirty' = r.dirty
            /\ lastOp' = Op("Delete", authID, "", "", <<>>, FALSE, 0, NoEntry, FALSE)
            /\ deletedSince' = IF authID = "" THEN deletedSince
                               ELSE deletedSince \cup {authID}
    /\ storeOps' = storeOps + 1
    /\ UNCHANGED <<files, spc>>
    /\ UNCHANGED nonStoreVars

\* Flush on a store that is not dirty: returns nil at once.
FlushClean ==
    /\ spc = "idle"
    /\ ~dirty
    /\ lastOp' = Op("Flush", "", "", "", <<>>, FALSE, 0, NoEntry, FALSE)
    /\ UNCHANGED <<AuthQuotas, dirty, files, spc, deletedSince, storeOps>>
    /\ UNCHANGED nonStoreVars

\* Flush on a dirty store: saveLocked, up to the moment os.WriteFile has
\* created or truncated filePath + ".tmp".
FlushOpenTmp ==
    /\ spc = "idle"
    /\ dirty
    /\ files' = [files EXCEPT !.tmp = FileOf(AuthQuotas, FALSE)]
    /\ spc' = "writing"
    /\ lastOp' = Op("saveLocked", "", "", "", <<>>, FALSE, 0, NoEntry, FALSE)
    /\ UNCHANGED <<AuthQuotas, dirty, deletedSince, storeOps>>
    /\ UNCHANGED nonStoreVars

\* os.WriteFile(tmpFile, raw) writes all of raw and returns nil.
FlushWriteTmp ==
    /\ spc = "writing"
    /\ files' = [files EXCEPT !.tmp = FileOf(AuthQuotas, TRUE)]
    /\ spc' = "written"
    /\ UNCHANGED <<AuthQuotas, dirty, lastOp, deletedSince, storeOps>>
    /\ UNCHANGED nonStoreVars

\* os.WriteFile fails part-way: saveLocked returns the error with the
\* temporary file as it is.
FlushWriteTmpFail ==
    /\ spc = "writing"
    /\ spc' = "idle"
    /\ lastOp' = [lastOp EXCEPT !.op = "Flush", !.err = TRUE]
    /\ UNCHANGED <<AuthQuotas, dirty, files, deletedSince, storeOps>>
    /\ UNCHANGED nonStoreVars

\* os.Rename(tmpFile, filePath) succeeds; dirty = false; return nil.
FlushRename ==
    /\ spc = "written"
    /\ files' = [target |-> files.tmp, tmp |-> NoFile]
    /\ dirty' = FALSE
    /\ spc' = "idle"
    /\ lastOp' = [lastOp EXCEPT !.op = "Flush"]
    /\ UNCHANGED <<AuthQuotas, deletedSince, storeOps>>
    /\ UNCHANGED nonStoreVars

\* os.Rename fails: os.Remove(tmpFile), and the error is returned.
FlushRenameFail ==
    /\ spc = "written"
    /\ files' = [files EXCEPT !.tmp = NoFile]
    /\ spc' = "idle"
    /\ lastOp' = [lastOp EXCEPT !.op = "Flush", !.err = TRUE]
    /\ UNCHANGED <<AuthQuotas, dirty, deletedSince, storeOps>>
    /\ UNCHANGED nonStoreVars

\* The process is killed, at any step: what is in memory is lost, the files
\* stay as they are.
Interrupt ==
    /\ spc # "down"
    /\ spc' = "down"
    /\ AuthQuotas' = <<>>
    /\ dirty' = FALSE
    /\ lastOp' = [NoOp EXCEPT !.op = "Interrupt"]
    /\ deletedSince' = {}
    /\ UNCHANGED <<files, storeOps>>
    /\ UNCHANGED nonStoreVars

\* NewStore in the next process: an empty store, then load.
NewStore ==
    /\ spc = "down"
    /\ AuthQuotas' = load(files.target)
    /\ dirty' = FALSE
    /\ spc' = "idle"
    /\ lastOp' = [NoOp EXCEPT !.op = "NewStore"]
    /\ UNCHANGED <<files, deletedSince, storeOps>>
    /\ UNCHANGED nonStoreVars

\* The quota file an earlier process may have left behind.
SeedQuotas ==
    { <<>>,
      ("auth-1" :> [Provider |-> "antigravity", UpdatedAt |-> ZeroTime,
                    Models |-> ("gpt-4" :> MQ(50, ZeroTime, 1))])
      @@ ("auth-2" :> [Provider |-> "codex", UpdatedAt |-> ZeroTime,
                       Models |-> ("*" :> MQ(30, ZeroTime, 1))]) }

\* NewStore on a directory with no quota file, or with one written earlier.
StoreStart ==
    /\ \E q \in SeedQuotas :
        /\ files = [target |-> IF DOMAIN q = {} THEN NoFile ELSE FileOf(q, TRUE),
                    tmp |-> NoFile]
        /\ AuthQuotas = q
    /\ dirty = FALSE
    /\ spc = "idle"
    /\ lastOp = NoOp
    /\ deletedSince = {}
    /\ storeOps = 0

StoreIdle ==
    /\ AuthQuotas = <<>>
    /\ dirty = FALSE
    /\ files = [target |-> NoFile, tmp |-> NoFile]
    /\ spc = "idle"
    /\ lastOp = NoOp
    /\ deletedSince = {}
    /\ storeOps = 0

(***************************************************************************)
(* The Antigravity executor's retry loop (Execute, executeClaudeNonStream  *)
(* and ExecuteStream share it): attempts, each walking the base URLs.      *)
(***************************************************************************)
MaxRetry == 2

antigravityBaseURLDaily == "https://daily-cloudcode-pa.googleapis.com"

antigravitySandboxBaseURLDaily == "https://daily-cloudcode-pa.sandbox.googleapis.com"

\* antigravityBaseURLFallbackOrder: the custom base URL of the auth alone, or
\* the two built-in ones.
BaseURLOrders ==
    { <<"https://proxy.example.com">>,
      <<antigravityBaseURLDaily, antigravitySandboxBaseURLDaily>> }

\* The three functions that run the loop.
Variants == {"Execute", "executeClaudeNonStream", "ExecuteStream"}

\* Execute reads the whole body before it looks at the status; the other two
\* read it only for a non-2xx status.
ReadsBodyFirst(v) == v = "Execute"

\* antigravityRetryAttempts with a retry count that ignores the extra first
\* attempt.
antigravityRetryAttemptsWithoutFirst(retry) ==
    IF retry < 1 THEN 1 ELSE retry

antigravityRetryAttempts(retry) ==
    LET clamped == IF retry < 0 THEN 0 ELSE retry
        n == clamped + 1
    IN  IF n < 1 THEN 1 ELSE n

\* strings.Contains
Contains(s, sub) ==
    \E i \in 1 .. Len(s) - Len(sub) + 1 : SubSeq(s, i, i + Len(sub) - 1) = sub

\* A test that takes every 503 for a lack of capacity.
antigravityShouldRetryAny503(statusCode, body) == statusCode = 503

antigravityShouldRetryNoCapacity(statusCode, body) ==
    IF statusCode # 503 THEN FALSE
    ELSE IF Len(body) = 0 THEN FALSE
    ELSE Contains(ToLower(body), "no capacity available")

\* antigravityNoCapacityRetryDelay, in milliseconds.
antigravityNoCapacityRetryDelay(a) ==
    LET n == IF a < 0 THEN 0 ELSE a
        delay == (n + 1) * 250
    IN  IF delay > 2000 THEN 2000 ELSE delay

\* What httpClient.Do and the read of the body may give for one request.
Responses ==
    { [kind |-> "status", code |-> 200, body |-> "{\"response\":{}}"],
      [kind |-> "status", code |-> 400, body |-> "invalid argument"],
      [kind |-> "status", code |-> 401, body |-> "unauthenticated"],
      [kind |-> "status", code |-> 403, body |-> "permission denied"],
      [kind |-> "status", code |-> 429, body |-> "resource exhausted"],
      [kind |-> "status", code |-> 429, body |-> "quota will reset after 30s"],
      [kind |-> "status", code |-> 500, body |-> "internal error"],
      [kind |-> "status", code |-> 503, body |-> "No capacity available for model"],
      [kind |-> "status", code |-> 503, body |-> "no capacity available"],
      [kind |-> "status", code |-> 503, body |-> "backend unavailable"],
      [kind |-> "status", code |-> 503, body |-> ""],
      [kind |-> "doError", code |-> 0, body |-> "connection refused"],
      [kind |-> "doError", code |-> 0, body |-> "context canceled"],
      [kind |-> "doError", code |-> 0, body |-> "context deadline exceeded"],
      [kind |-> "readError", code |-> 503, body |-> "context canceled"],
      [kind |-> "readError", code |-> 502, body |-> "unexpected EOF"],
      [kind |-> "scanError", code |-> 200, body |-> "unexpected EOF"] }

\* No retry-after hint (a nil *time.Duration).
NoRetryAfter == 0

\* parseRetryDelay: the delay, in seconds, that the body of a 429 names, or
\* none.
RetryHints == ("quota will reset after 30s" :> 30)

parseRetryDelay(body) ==
    IF body \in DOMAIN RetryHints THEN RetryHints[body] ELSE NoRetryAfter

NoResult ==
    [kind |-> "none", code |-> 0, body |-> "", url |-> "", retryAfter |-> NoRetryAfter]

\* The statusErr the loop returns for a non-2xx response: the status, the
\* body as its message and, for a 429, the retry-after hint of the body.
NewStatusErr(r, url) ==
    [kind |-> "status", code |-> r.code, body |-> r.body, url |-> url,
     retryAfter |-> IF r.code = 429 THEN parseRetryDelay(r.body) ELSE NoRetryAfter]

\* A loop that never leaves a base URL on a 429.
FallsBackOn429Never(r, i, n) == FALSE

\* A 429 from a base URL that is not the last one: log and go on to the next.
FallsBackOn429(r, i, n) == r.code = 429 /\ i + 1 <= n

\* antigravityShouldRetryNoCapacity of every response, computed once.
NoCapacityOf ==
    [r \in Responses |-> antigravityShouldRetryNoCapacity(r.code, r.body)]

\* What the loop does with a non-2xx response before any retry for lack of
\* capacity is considered: a fallback that comes second to the retry.
OnUpstreamErrorRetryBeforeFallback(r, i, n, a, attempts) ==
    IF FallsBackOn429(r, i, n) THEN "next-url"
    ELSE IF NoCapacityOf[r]
    THEN IF a + 1 < attempts THEN "backoff"
         ELSE IF i + 1 <= n THEN "next-url"
         ELSE "return"
    ELSE "return"

\* What the loop does with a non-2xx response from base URL number i of n
\* in attempt a: go on to the next base URL, wait and start the next
\* attempt, or return the status.
OnUpstreamError(r, i, n, a, attempts) ==
    IF FallsBackOn429(r, i, n) THEN "next-url"
    ELSE IF NoCapacityOf[r]
    THEN IF i + 1 <= n THEN "next-url"
         ELSE IF a + 1 < attempts THEN "backoff"
         ELSE "return"
    ELSE "return"

\* ctx.Err() of a context that is done.
CtxErr(c) == IF c = "canceled" THEN "context canceled" ELSE "context deadline exceeded"

\* errors.Is(err, context.Canceled) || errors.Is(err, context.DeadlineExceeded)
IsCtxErr(r) ==
    /\ r.kind \in {"doError", "readError"}
    /\ r.body \in {"context canceled", "context deadline exceeded"}

\* The context is not done.
NotCancelled == [len |-> 0 - 1, epc |-> ""]

\* A loop that treats the error of a done context like any transport error.
OnDoErrorIgnoresContext(r, i, n) ==
    IF i + 1 <= n THEN "next-url" ELSE "return-error"

\* What the loop does when httpClient.Do fails for base URL number i of n.
OnDoError(r, i, n) ==
    IF IsCtxErr(r) THEN "return-error"
    ELSE IF i + 1 <= n THEN "next-url"
    ELSE "return-error"

\* What the loop does when the read of the body fails.
OnReadError(r, v, i, n) ==
    IF ReadsBodyFirst(v) THEN "return-error"
    ELSE IF IsCtxErr(r) THEN "return-error"
    ELSE IF i + 1 <= n THEN "next-url"
    ELSE "return-error"

\* usageReporter.trackFailure(ctx, &err), deferred by the three functions:
\* a failure is published when the call returns an error.
TrackFailure(u, res) ==
    IF res.kind # "ok" THEN Append(u, [rep |-> "outer", call |-> "publishFailure"])
    ELSE u

\* The errors the call may return before its loop: the statusErr of
\* ensureAccessToken, or the error of thinking.ApplyThinking.
PrepareErrors ==
    { [kind |-> "status", code |-> 401, body |-> "missing refresh token", url |-> "",
       retryAfter |-> NoRetryAfter],
      [kind |-> "error", code |-> 0, body |-> "prepare failed", url |-> "",
       retryAfter |-> NoRetryAfter] }

\* An attempt loop whose counter stands still.
NextAttemptSame(a) == a

\* attempt++ of attemptLoop
NextAttempt(a) == a + 1

\* A 2xx response whose body breaks off. Execute fails in io.ReadAll;
\* executeClaudeNonStream gets the scanner's error as a chunk and returns it;
\* ExecuteStream has returned the stream by then.
OnScanError(v) == IF v = "ExecuteStream" THEN "return-ok" ELSE "return-error"

\* The terminal calls on the way to a nil error: Execute calls
\* ensurePublished; in executeClaudeNonStream the scanning goroutine does and
\* then the function itself; ExecuteStream leaves it to its goroutine.
OnSuccess(v) ==
    CASE v = "Execute" -> << [rep |-> "outer", call |-> "ensurePublished"] >>
      [] v = "executeClaudeNonStream" ->
            << [rep |-> "outer", call |-> "ensurePublished"],
               [rep |-> "outer", call |-> "ensurePublished"] >>
      [] OTHER -> <<>>

\* The scanning goroutine of executeClaudeNonStream calls publishFailure
\* before it hands the scanner's error over.
OnScanFailure(r, v) ==
    IF r.kind = "scanError" /\ v = "executeClaudeNonStream"
    THEN << [rep |-> "outer", call |-> "publishFailure"] >>
    ELSE <<>>

\* No client request: the call is described by its variant alone.
NoRequest == [entry |-> "", model |-> "", tools |-> <<>>, query |-> ""]

\* The call holds no request yet: the checks and translations before the
\* loop succeed, or one of them returns its error.
ExecPrepare ==
    /\ epc = "start"
    /\ epc' = "request"
    /\ UNCHANGED <<variant, requestRetry, baseURLs, attempt, baseIdx, trace, result,
                   ctx, cancelAt, request, usage, stream>>
    /\ UNCHANGED nonExecVars

ExecPrepareFail ==
    /\ epc = "start"
    /\ epc' = "done"
    /\ \E e \in PrepareErrors :
        /\ e.code # 401 => variant \in Variants
        /\ result' = e
        /\ usage' = IF e.code = 401 THEN usage ELSE TrackFailure(usage, e)
    /\ UNCHANGED <<variant, requestRetry, baseURLs, attempt, baseIdx, trace, ctx,
                   cancelAt, request, stream>>
    /\ UNCHANGED nonExecVars

\* One pass of the inner loop: the request to baseURLs[baseIdx], its
\* response, and what the loop decides.
ExecRequest ==
    /\ epc = "request"
    /\ variant \in Variants
    /\ \E r \in (IF ctx = "live" THEN Responses
                  ELSE {[kind |-> "doError", code |-> 0, body |-> CtxErr(ctx)]}) :
        LET n == Len(baseURLs)
            url == baseURLs[baseIdx]
            entry == [kind |-> "request", attempt |-> attempt, idx |-> baseIdx,
                      url |-> url, response |-> r, delay |-> 0,
                      sent |-> ctx = "live", model |-> request.model]
            attempts == antigravityRetryAttempts(requestRetry)
            decision ==
                IF r.kind = "doError" THEN OnDoError(r, baseIdx, n)
                ELSE IF r.kind = "readError" THEN OnReadError(r, variant, baseIdx, n)
                ELSE IF r.kind = "scanError" THEN OnScanError(variant)
                ELSE IF r.code >= 200 /\ r.code < 300 THEN "return-ok"
                ELSE LET d == OnUpstreamError(r, baseIdx, n, attempt, attempts)
                     IN  IF d = "return" THEN "return-status" ELSE d
        IN  /\ trace' = Append(trace, entry)
            /\ IF ctx = "live" /\ IsCtxErr(r)
               THEN /\ ctx' = (IF r.body = "context canceled" THEN "canceled"
                               ELSE "deadline exceeded")
                    /\ cancelAt' = [len |-> Len(trace) + 1, epc |-> "inflight"]
               ELSE UNCHANGED <<ctx, cancelAt>>
            /\ CASE decision = "next-url" ->
                        /\ baseIdx' = baseIdx + 1
                        /\ UNCHANGED <<epc, attempt, result, usage, stream>>
                 [] decision = "backoff" ->
                        /\ epc' = "wait"
                        /\ UNCHANGED <<baseIdx, attempt, result, usage, stream>>
                 [] decision = "return-ok" ->
                        /\ epc' = "done"
                        /\ result' = [kind |-> "ok", code |-> r.code, body |-> r.body,
                                      url |-> url, retryAfter |-> NoRetryAfter]
                        /\ usage' = usage \o OnSuccess(variant)
                        /\ stream' = IF variant = "ExecuteStream"
                                     THEN (IF r.kind = "scanError" THEN "broken"
                                           ELSE "open")
                                     ELSE stream
                        /\ UNCHANGED <<baseIdx, attempt>>
                 [] decision = "return-status" ->
                        /\ epc' = "done"
                        /\ result' = NewStatusErr(r, url)
                        /\ usage' = TrackFailure(usage, result')
                        /\ UNCHANGED <<baseIdx, attempt, stream>>
                 [] decision = "return-error" ->
                        /\ epc' = "done"
                        /\ result' = [kind |-> "error", code |-> 0, body |-> r.body,
                                      url |-> url, retryAfter |-> NoRetryAfter]
                        /\ usage' = TrackFailure(usage \o OnScanFailure(r, variant),
                                                 result')
                        /\ UNCHANGED <<baseIdx, attempt, stream>>
    /\ UNCHANGED <<variant, requestRetry, baseURLs, request>>
    /\ UNCHANGED nonExecVars

\* antigravityWait returns nil after the delay: continue attemptLoop.
ExecWaitDone ==
    /\ epc = "wait"
    /\ trace' = Append(trace, [kind |-> "sleep", attempt |-> attempt, idx |-> 0,
                               url |-> "", response |-> NoResult,
                               delay |-> antigravityNoCapacityRetryDelay(attempt),
                               sent |-> FALSE, model |-> ""])
    /\ attempt' = NextAttempt(attempt)
    /\ baseIdx' = 1
    /\ epc' = "request"
    /\ UNCHANGED <<variant, requestRetry, baseURLs, result, ctx, cancelAt, request,
                   usage, stream>>
    /\ UNCHANGED nonExecVars

\* The context is done while antigravityWait waits: its error is returned.
ExecWaitCanceled ==
    /\ epc = "wait"
    /\ ctx # "live"
    /\ epc' = "done"
    /\ result' = [kind |-> "error", code |-> 0, body |-> CtxErr(ctx), url |-> "",
                  retryAfter |-> NoRetryAfter]
    /\ usage' = TrackFailure(usage, result')
    /\ UNCHANGED <<variant, requestRetry, baseURLs, attempt, baseIdx, trace, ctx,
                   cancelAt, request, stream>>
    /\ UNCHANGED nonExecVars

\* The caller cancels the context, or its deadline passes, while the call
\* runs.
ExecCancel ==
    /\ epc \in {"start", "request", "wait"}
    /\ ctx = "live"
    /\ ctx' \in {"canceled", "deadline exceeded"}
    /\ cancelAt' = [len |-> Len(trace), epc |-> epc]
    /\ UNCHANGED <<variant, requestRetry, baseURLs, epc, attempt, baseIdx, trace,
                   result, request, usage, stream>>
    /\ UNCHANGED nonExecVars

\* The goroutine of a returned stream reaches the end of the body and calls
\* ensurePublished: on the reporter of ExecuteStream, or on the one
\* executeWebSearchOnlyStream made.
StreamEnd ==
    /\ stream = "open"
    /\ stream' = "closed"
    /\ usage' = Append(usage, [rep |-> IF variant = "ExecuteStream" THEN "outer"
                                       ELSE "inner",
                               call |-> "ensurePublished"])
    /\ UNCHANGED <<variant, requestRetry, baseURLs, epc, attempt, baseIdx, trace,
                   result, ctx, cancelAt, request>>
    /\ UNCHANGED nonExecVars

\* The scanner of the goroutine fails: publishFailure, and the error goes
\* out as the last chunk.
StreamScanError ==
    /\ stream = "broken"
    /\ stream' = "failed"
    /\ usage' = Append(usage, [rep |-> "outer", call |-> "publishFailure"])
    /\ UNCHANGED <<variant, requestRetry, baseURLs, epc, attempt, baseIdx, trace,
                   result, ctx, cancelAt, request>>
    /\ UNCHANGED nonExecVars

(***************************************************************************)
(* Web search for Claude models: the request is answered from one Gemini   *)
(* call with the googleSearch tool.                                        *)
(***************************************************************************)
webSearchGeminiModel == "gemini-2.5-flash"

\* The two functions that answer from a web search.
WebVariants == {"executeWebSearchOnly", "executeWebSearchOnlyStream"}

\* doWebSearchTool: some tool of the payload has a type that begins with
\* web_search.
doWebSearchTool(tools) ==
    \E i \in DOMAIN tools : HasPrefix(tools[i], "web_search")

\* A dispatch that asks for the web search only when the first tool is one.
DispatchOnFirstTool(req) ==
    LET isClaude == Contains(ToLower(req.model), "claude")
        web == Len(req.tools) > 0 /\ HasPrefix(req.tools[1], "web_search")
    IN  IF req.entry = "ExecuteStream"
        THEN IF isClaude /\ web THEN "executeWebSearchOnlyStream" ELSE "ExecuteStream"
        ELSE IF isClaude
             THEN IF web THEN "executeWebSearchOnly" ELSE "executeClaudeNonStream"
             ELSE "Execute"

\* Which function serves a request. Execute hands Claude and gemini-3-pro
\* models to executeClaudeNonStream, which turns to the web search when the
\* payload has the tool; ExecuteStream turns to it for Claude models only.
Dispatch(req) ==
    IF req.entry = "ExecuteStream"
    THEN IF Contains(ToLower(req.model), "claude") /\ doWebSearchTool(req.tools)
         THEN "executeWebSearchOnlyStream"
         ELSE "ExecuteStream"
    ELSE LET baseModel == ParseSuffix(req.model)
         IN  IF \/ Contains(ToLower(baseModel), "claude")
                \/ Contains(baseModel, "gemini-3-pro")
             THEN IF doWebSearchTool(req.tools) THEN "executeWebSearchOnly"
                  ELSE "executeClaudeNonStream"
             ELSE "Execute"

\* The terminal calls of a failed web search: publishFailure on the reporter
\* of executeWebSearchOnly[Stream], and for the stream the deferred
\* trackFailure of ExecuteStream on its own reporter.
OnWebSearchFailure(v) ==
    << [rep |-> "inner", call |-> "publishFailure"] >>
    \o (IF v = "executeWebSearchOnlyStream"
        THEN << [rep |-> "outer", call |-> "publishFailure"] >>
        ELSE <<>>)

\* extractUserQuery found no text in the last user message: the error is
\* returned before any request.
WebSearchNoQuery ==
    /\ epc = "request"
    /\ variant \in WebVariants
    /\ request.query = ""
    /\ epc' = "done"
    /\ result' = [kind |-> "error", code |-> 0,
                  body |-> "no user query found for web search", url |-> "",
                  retryAfter |-> NoRetryAfter]
    /\ usage' = usage \o OnWebSearchFailure(variant)
    /\ UNCHANGED <<variant, requestRetry, baseURLs, attempt, baseIdx, trace, ctx,
                   cancelAt, request, stream>>
    /\ UNCHANGED nonExecVars

\* One pass of the loop of executeGeminiWebSearch: the request to
\* baseURLs[baseIdx] for webSearchGeminiModel; a 2xx body is the answer,
\* anything else leads to the next base URL or, after the last, to the
\* error 'web search failed'.
WebSearchRequest ==
    /\ epc = "request"
    /\ variant \in WebVariants
    /\ request.query # ""
    /\ \E r \in (IF ctx = "live" THEN Responses
                  ELSE {[kind |-> "doError", code |-> 0, body |-> CtxErr(ctx)]}) :
        LET n == Len(baseURLs)
            url == baseURLs[baseIdx]
            entry == [kind |-> "request", attempt |-> 0, idx |-> baseIdx,
                      url |-> url, response |-> r, delay |-> 0,
                      sent |-> ctx = "live", model |-> webSearchGeminiModel]
            ok == r.kind = "status" /\ r.code >= 200 /\ r.code < 300
        IN  /\ trace' = Append(trace, entry)
            /\ IF ctx = "live" /\ IsCtxErr(r)
               THEN /\ ctx' = (IF r.body = "context canceled" THEN "canceled"
                               ELSE "deadline exceeded")
                    /\ cancelAt' = [len |-> Len(trace) + 1, epc |-> "inflight"]
               ELSE UNCHANGED <<ctx, cancelAt>>
            /\ IF ok
               THEN /\ epc' = "done"
                    /\ result' = [kind |-> "ok", code |-> r.code, body |-> r.body,
                                  url |-> url, retryAfter |-> NoRetryAfter]
                    /\ IF variant = "executeWebSearchOnlyStream"
                       THEN stream' = "open" /\ usage' = usage
                       ELSE /\ stream' = stream
                            /\ usage' = Append(usage, [rep |-> "inner",
                                                       call |-> "ensurePublished"])
                    /\ UNCHANGED baseIdx
               ELSE IF baseIdx + 1 <= n
               THEN /\ baseIdx' = baseIdx + 1
                    /\ UNCHANGED <<epc, result, usage, stream>>
               ELSE /\ epc' = "done"
                    /\ result' = [kind |-> "error", code |-> 0,
                                  body |-> "web search failed", url |-> "",
                                  retryAfter |-> NoRetryAfter]
                    /\ usage' = usage \o OnWebSearchFailure(variant)
                    /\ UNCHANGED <<baseIdx, stream>>
    /\ UNCHANGED <<variant, requestRetry, baseURLs, attempt, request>>
    /\ UNCHANGED nonExecVars

\* The client requests: the entry point called, the model asked for, the
\* types of the tools in the payload and the text extractUserQuery finds.
ClientRequests ==
    { [entry |-> e, model |-> m, tools |-> t, query |-> q] :
        e \in {"Execute", "ExecuteStream"},
        m \in {"claude-sonnet-4-5", "gemini-3-pro-high", "gemini-2.5-pro"},
        t \in {<<>>, <<"bash_20250124", "web_search_20250305">>},
        q \in {"", "weather in Paris"} }

\* A call of Execute or ExecuteStream with a client request.
CallStart ==
    /\ request \in {req \in ClientRequests :
                        req.query = "" => Dispatch(req) \in WebVariants}
    /\ variant = Dispatch(request)
    /\ requestRetry \in (0 - 1) .. MaxRetry
    /\ baseURLs \in BaseURLOrders
    /\ epc = "start"
    /\ attempt = 0
    /\ baseIdx = 1
    /\ trace = <<>>
    /\ result = NoResult
    /\ ctx = "live"
    /\ cancelAt = NotCancelled
    /\ usage = <<>>
    /\ stream = "none"

\* A call of one of the three functions, with the configured retry count and
\* the base URLs of the auth.
ExecStart ==
    /\ variant \in Variants
    /\ requestRetry \in (0 - 1) .. MaxRetry
    /\ baseURLs \in BaseURLOrders
    /\ epc = "start"
    /\ attempt = 0
    /\ baseIdx = 1
    /\ trace = <<>>
    /\ result = NoResult
    /\ ctx = "live"
    /\ cancelAt = NotCancelled
    /\ request = NoRequest
    /\ usage = <<>>
    /\ stream = "none"

ExecIdle ==
    /\ variant = "Execute"
    /\ requestRetry = 0
    /\ baseURLs = <<antigravityBaseURLDaily, antigravitySandboxBaseURLDaily>>
    /\ epc = "idle"
    /\ attempt = 0
    /\ baseIdx = 1
    /\ trace = <<>>
    /\ result = NoResult
    /\ ctx = "live"
    /\ cancelAt = NotCancelled
    /\ request = NoRequest
    /\ usage = <<>>
    /\ stream = "none"

\* ---------------------------------------------------------------------
\* The signature recovery: a Claude request whose thinking block carries a
\* signature the upstream rejects is rewritten and sent once more.
\* A JSON object is a function from its field names, so that a field can
\* be absent; the messages and the content blocks are indexed from 1 where
\* the code counts from 0.

sjsonDelete(object, field) == [f \in DOMAIN object \ {field} |-> object[f]]

sjsonSet(object, field, value) ==
    [f \in DOMAIN object \cup {field} |-> IF f = field THEN value ELSE object[f]]

\* gjson's String() of a field: the empty string when the field is absent.
gjsonString(object, field) == IF field \in DOMAIN object THEN object[field] ELSE ""

SignedThinking ==
    [type |-> "thinking", thinking |-> "plan the answer", signature |-> "sig-1"]

OtherThinking ==
    [type |-> "thinking", thinking |-> "check the units", signature |-> "sig-2"]

UnsignedThinking == [type |-> "thinking", thinking |-> "recall the rule"]

TextBlock == [type |-> "text", text |-> "hello"]

AssistantContents ==
    { <<SignedThinking>>, <<TextBlock>>, <<SignedThinking, TextBlock>>,
      <<TextBlock, SignedThinking>>, <<SignedThinking, OtherThinking>>,
      <<UnsignedThinking, TextBlock>> }

RecoveryMessages ==
    {[role |-> "user", content |-> <<TextBlock>>]}
    \cup {[role |-> "assistant", content |-> c] : c \in AssistantContents}

MaxMessages == 2

RecoveryModels == {"claude-sonnet-4-5-thinking", "gemini-2.5-pro"}

ThinkingConfig == [type |-> "enabled", budget_tokens |-> "1024"]

\* The client payloads: with and without Extended Thinking switched on.
RecoveryPayloads ==
    LET lists == UNION {[1..n -> RecoveryMessages] : n \in 1..MaxMessages}
        plain == {[max_tokens |-> "4096", messages |-> ms] : ms \in lists}
    IN  plain \cup {sjsonSet(p, "thinking", ThinkingConfig) : p \in plain}

\* Type "thinking" becomes "text", the thinking text moves to the text field,
\* the signature goes.
ThinkingToText(block) ==
    sjsonSet(sjsonDelete(sjsonDelete(sjsonSet(block, "type", "text"), "thinking"),
                         "signature"),
             "text", gjsonString(block, "thinking"))

HasThinkingBlock(messages) ==
    \E i \in DOMAIN messages :
        \E j \in DOMAIN messages[i].content : messages[i].content[j].type = "thinking"

\* The function of src/unnamed/part_001, the one TrySignatureRecoveryFix
\* calls: every thinking block becomes text and, when one did, the top-level
\* thinking field goes.
ConvertThinkingToTextForRecoveryFix(payload) ==
    LET messages == payload.messages
        converted ==
            [i \in DOMAIN messages |->
                sjsonSet(messages[i], "content",
                    [j \in DOMAIN messages[i].content |->
                        IF messages[i].content[j].type = "thinking"
                        THEN ThinkingToText(messages[i].content[j])
                        ELSE messages[i].content[j]])]
        rewritten == sjsonSet(payload, "messages", converted)
    IN  IF HasThinkingBlock(messages) /\ "thinking" \in DOMAIN rewritten
        THEN sjsonDelete(rewritten, "thinking")
        ELSE rewritten

\* 0 when no message is the assistant's (the code's -1).
lastAssistantIdx(messages) ==
    LET assistants == {i \in DOMAIN messages : messages[i].role = "assistant"}
    IN  IF assistants = {} THEN 0
        ELSE CHOOSE i \in assistants : \A k \in assistants : k <= i

\* The function of antigravity_signature_recovery_fix.go: the thinking block
\* at the head of the last assistant message stays a thinking block and only
\* loses its signature.
ConvertThinkingPreservingFirst(payload) ==
    LET messages == payload.messages
        last == lastAssistantIdx(messages)
        converted ==
            [i \in DOMAIN messages |->
                sjsonSet(messages[i], "content",
                    [j \in DOMAIN messages[i].content |->
                        IF messages[i].content[j].type # "thinking"
                        THEN messages[i].content[j]
                        ELSE IF i = last /\ j = 1
                        THEN sjsonDelete(messages[i].content[j], "signature")
                        ELSE ThinkingToText(messages[i].content[j])])]
    IN  sjsonSet(payload, "messages", converted)

RecoveryFiles == {"part_001", "antigravity_signature_recovery_fix.go"}

ConvertIn(file, payload) ==
    IF file = "part_001"
    THEN ConvertThinkingToTextForRecoveryFix(payload)
    ELSE ConvertThinkingPreservingFirst(payload)

PayloadChangedAfterRecovery(original, recovered) == original # recovered

\* The patterns of part_001, with ' where the code has a backquote.
signatureErrorPatterns ==
    { "invalid 'signature' in 'thinking' block",
      "expected 'thinking' or 'redacted_thinking'",
      "must start with a thinking block" }

IsSignatureValidationErrorFix(statusCode, body) ==
    /\ statusCode >= 400
    /\ statusCode < 500
    /\ \E pattern \in signatureErrorPatterns : Contains(ToLower(body), pattern)

\* What the upstream may answer to a request of the recovery.
RecoveryResponses ==
    { [status |-> 200, body |-> "ok"],
      [status |-> 400, body |-> "messages.1.content.0: Invalid 'signature' in 'thinking' block"],
      [status |-> 400, body |-> "Expected 'thinking' or 'redacted_thinking', but found 'text'"],
      [status |-> 400, body |-> "invalid argument"],
      [status |-> 500, body |-> "invalid 'signature' in 'thinking' block"] }

\* The rejected signatures among them, computed once.
SignatureValidationErrors ==
    {r \in RecoveryResponses : IsSignatureValidationErrorFix(r.status, r.body)}

ClaudeModels == {m \in RecoveryModels : Contains(ToLower(m), "claude")}

ShouldRetryIgnoringAttempt(response, model, alreadyRetried) ==
    /\ model \in ClaudeModels
    /\ response \in SignatureValidationErrors

ShouldRetryWithRecoveryFix(response, model, alreadyRetried) ==
    /\ ~alreadyRetried
    /\ model \in ClaudeModels
    /\ response \in SignatureValidationErrors

\* TrySignatureRecoveryFix without the test that the rewrite changed anything.
TrySignatureRecoveryWithoutChangeTest(alreadyRetried, response, payload, model) ==
    LET recovered == ConvertThinkingToTextForRecoveryFix(payload)
    IN  IF ShouldRetryWithRecoveryFix(response, model, alreadyRetried)
        THEN [payload |-> recovered, attempt |-> TRUE, retry |-> TRUE]
        ELSE [payload |-> payload, attempt |-> alreadyRetried, retry |-> FALSE]

\* alreadyRetried is IsSignatureRecoveryAttemptFix(ctx); the value returned
\* carries the payload to send, the flag of the context and whether to retry.
TrySignatureRecoveryFix(alreadyRetried, response, payload, model) ==
    LET recovered == ConvertThinkingToTextForRecoveryFix(payload)
    IN  IF /\ ShouldRetryWithRecoveryFix(response, model, alreadyRetried)
           /\ PayloadChangedAfterRecovery(payload, recovered)
        THEN [payload |-> recovered, attempt |-> TRUE, retry |-> TRUE]
        ELSE [payload |-> payload, attempt |-> alreadyRetried, retry |-> FALSE]

NoPayload == [messages |-> <<>>]

NoResponse == [status |-> 0, body |-> ""]

NoRecovery == [rpc |-> "idle"]

RecoveryStart ==
    \E file \in RecoveryFiles, model \in RecoveryModels, payload \in RecoveryPayloads :
        recovery = [rpc |-> "send", file |-> file, model |-> model,
                    payload |-> payload, converted |-> NoPayload,
                    current |-> payload, attempt |-> FALSE,
                    sends |-> <<>>, surfaced |-> NoResponse]

\* A call of the file's ConvertThinkingToTextForRecoveryFix on the client
\* payload.
ConvertThinking ==
    /\ recovery.rpc # "idle"
    /\ recovery.converted = NoPayload
    /\ recovery' = [recovery EXCEPT !.converted = ConvertIn(recovery.file, recovery.payload)]
    /\ UNCHANGED <<headVars, token, poller, mirror>>

\* The caller of TrySignatureRecoveryFix: it sends the current payload; on a
\* failure it asks TrySignatureRecoveryFix with the client's payload and
\* either sends what it got, under the context it got, or returns the
\* upstream's answer.
RecoverySend ==
    /\ recovery.rpc = "send"
    /\ recovery.file = "part_001"
    /\ \E r \in RecoveryResponses :
        LET try == TrySignatureRecoveryFix(recovery.attempt, r, recovery.payload,
                                           recovery.model)
            sent == [payload |-> recovery.current, attempt |-> recovery.attempt,
                     response |-> r]
            again == r.status >= 300 /\ try.retry
        IN  recovery' =
                [recovery EXCEPT
                    !.sends = Append(@, sent),
                    !.current = IF again THEN try.payload ELSE @,
                    !.attempt = IF again THEN try.attempt ELSE @,
                    !.rpc = IF again THEN "send" ELSE "done",
                    !.surfaced = IF again THEN @ ELSE r]
    /\ UNCHANGED <<headVars, token, poller, mirror>>

\* ---------------------------------------------------------------------
\* ensureAccessToken and refreshToken.  Instants are in milliseconds; the
\* auths are objects of a heap, so that a write through one reference shows
\* through every other reference to the same object.

Second == 1000

refreshSkew == 3000 * Second

\* The clock when ensureAccessToken is called: not on a whole second.
TokenNow == 50000 * Second + 500

\* time.Format(time.RFC3339) keeps whole seconds; a formatted instant is the
\* record of its second, any other string is itself.
FormatRFC3339(t) == [rfc3339 |-> t \div Second]

IsRFC3339(s) == DOMAIN s = {"rfc3339"}

ParseRFC3339(s) == s.rfc3339 * Second

\* metaStringValue: the trimmed string under the key, "" without one.
metaStringValue(metadata, key) ==
    IF key \in DOMAIN metadata THEN TrimSpace(metadata[key]) ELSE ""

\* The zero time when neither expired nor timestamp and expires_in give one.
tokenExpiry(metadata) ==
    IF "expired" \in DOMAIN metadata /\ IsRFC3339(metadata.expired)
    THEN ParseRFC3339(metadata.expired)
    ELSE IF "expires_in" \in DOMAIN metadata /\ "timestamp" \in DOMAIN metadata
    THEN metadata.timestamp + metadata.expires_in * Second
    ELSE ZeroTime

\* The metadata with the value of vs under the key; vs is empty for a key the
\* metadata does not have.
WithOptional(metadata, key, vs) ==
    IF vs = {} THEN metadata ELSE sjsonSet(metadata, key, CHOOSE v \in vs : TRUE)

\* The auths a caller may hold: the token present, blank or missing; the
\* expiry around now + refreshSkew, given by expired or by timestamp and
\* expires_in; the refresh token present or not.
TokenMetadata ==
    { WithOptional(WithOptional(WithOptional(WithOptional(WithOptional(
          [type |-> "antigravity"],
          "access_token", a), "refresh_token", r), "expired", e),
          "expires_in", {x[1] : x \in xs}), "timestamp", {x[2] : x \in xs}) :
        a \in {{}, {"  "}, {" ya29.stored"}},
        r \in {{}, {"1//refresh"}},
        e \in { {}, {[text |-> "soon"]},
                {FormatRFC3339(TokenNow + refreshSkew)},
                {FormatRFC3339(TokenNow + refreshSkew + Second)},
                {FormatRFC3339(TokenNow - Second)} },
        xs \in { {},
                 {<<3600, TokenNow - 600 * Second>>},
                 {<<3601, TokenNow - 600 * Second>>} } }

\* What the token endpoint may answer, or the error of the request.
TokenResponses ==
    { [kind |-> "status", code |-> 200, access_token |-> "ya29.fresh",
       refresh_token |-> "", expires_in |-> 3599],
      [kind |-> "status", code |-> 200, access_token |-> "ya29.fresh",
       refresh_token |-> "1//rotated", expires_in |-> 3599],
      [kind |-> "status", code |-> 400, access_token |-> "",
       refresh_token |-> "", expires_in |-> 0],
      [kind |-> "status", code |-> 429, access_token |-> "",
       refresh_token |-> "", expires_in |-> 0],
      [kind |-> "error", code |-> 0, access_token |-> "",
       refresh_token |-> "", expires_in |-> 0] }

\* Auth.Clone: a new object with a copy of the metadata.
AuthClone(objects, ref) == [heap |-> Append(objects, objects[ref]), ref |-> Len(objects) + 1]

NeedsRefreshWithoutSkew(metadata, t) ==
    ~(metaStringValue(metadata, "access_token") # "" /\ tokenExpiry(metadata) > t)

\* The negation of the test that lets ensureAccessToken return the stored
\* token.
NeedsRefresh(metadata, t) ==
    ~(/\ metaStringValue(metadata, "access_token") # ""
      /\ tokenExpiry(metadata) > t + refreshSkew)

NoTokenError == [code |-> 0, msg |-> ""]

NoToken == [tpc |-> "idle"]

TokenStart ==
    \E metadata \in TokenMetadata :
        token = [tpc |-> "start", objects |-> <<metadata>>, auth |-> 1, given |-> metadata,
                 now |-> TokenNow, refreshed |-> FALSE, clone |-> 0, requests |-> 0,
                 accessToken |-> "", updated |-> 0, err |-> NoTokenError]

\* ensureAccessToken up to the request of refreshToken: the stored token, or
\* refreshToken on a clone, which fails at once without a refresh token and
\* otherwise posts to the token endpoint.
EnsureAccessToken ==
    /\ token.tpc = "start"
    /\ LET metadata == token.objects[token.auth]
           cloned == AuthClone(token.objects, token.auth)
       IN  IF ~NeedsRefresh(metadata, token.now)
           THEN token' = [token EXCEPT
                    !.tpc = "done",
                    !.accessToken = metaStringValue(metadata, "access_token")]
           ELSE IF metaStringValue(cloned.heap[cloned.ref], "refresh_token") = ""
           THEN token' = [token EXCEPT
                    !.tpc = "done", !.refreshed = TRUE,
                    !.objects = cloned.heap, !.clone = cloned.ref,
                    !.err = [code |-> 401, msg |-> "missing refresh token"]]
           ELSE token' = [token EXCEPT
                    !.tpc = "refresh", !.refreshed = TRUE,
                    !.objects = cloned.heap, !.clone = cloned.ref,
                    !.requests = @ + 1]
    /\ UNCHANGED <<headVars, recovery, poller, mirror>>

\* The answer of the token endpoint and the rest of refreshToken and of
\* ensureAccessToken: an error or a status outside 2xx is returned, a 2xx
\* answer is written to the clone, which is returned with its token.
RefreshTokenReturn ==
    /\ token.tpc = "refresh"
    /\ \E r \in TokenResponses, later \in {0, 2 * Second} :
        LET t == token.now + later
            old == token.objects[token.clone]
            rotated == IF r.refresh_token # "" THEN {r.refresh_token} ELSE {}
            new == sjsonSet(sjsonSet(sjsonSet(sjsonSet(
                       WithOptional(sjsonSet(old, "access_token", r.access_token),
                                    "refresh_token", rotated),
                       "expires_in", r.expires_in), "timestamp", t),
                       "expired", FormatRFC3339(t + r.expires_in * Second)),
                       "type", "antigravity")
        IN  IF r.kind = "error"
            THEN token' = [token EXCEPT
                     !.tpc = "done", !.now = t,
                     !.err = [code |-> 0, msg |-> "Post: connection refused"]]
            ELSE IF r.code < 200 \/ r.code >= 300
            THEN token' = [token EXCEPT
                     !.tpc = "done", !.now = t,
                     !.err = [code |-> r.code, msg |-> "refresh rejected"]]
            ELSE token' = [token EXCEPT
                     !.tpc = "done", !.now = t,
                     !.objects = [@ EXCEPT ![token.clone] = new],
                     !.updated = token.clone,
                     !.accessToken = metaStringValue(new, "access_token")]
    /\ UNCHANGED <<headVars, recovery, poller, mirror>>

\* ---------------------------------------------------------------------
\* One iteration of the quota poller: Poller.poll walks the auths of the
\* manager and starts a goroutine for each one it keeps, after it put a token
\* in the semaphore channel; the goroutine fetches, takes a token out and
\* tells the wait group.

maxConcurrentRequests == 5

StatusDisabled == "disabled"

EqualFold(s, t) == ToLower(s) = ToLower(t)

\* Attributes["runtime_only"] is "" for an auth without the attribute.
shouldSkipAuth(auth) ==
    \/ auth.Disabled
    \/ auth.Status = StatusDisabled
    \/ EqualFold(TrimSpace(auth.Attributes.runtime_only), "true")

PolledProviders == {"antigravity", "codex", "gemini-cli"}

\* The test of poll's loop for an auth: TRUE when the loop goes on to the
\* semaphore with it.
PollKeeps(auth) ==
    /\ TrimSpace(auth.ID) # ""
    /\ ~shouldSkipAuth(auth)
    /\ ToLower(TrimSpace(auth.Provider)) \in PolledProviders

PollAuth(id, provider) ==
    [ID |-> id, Provider |-> provider, Disabled |-> FALSE, Status |-> "active",
     Attributes |-> [runtime_only |-> ""]]

\* The providers of the auths of an iteration, in the manager's order.
PollProviders == <<"antigravity", "codex", "gemini-cli", " Antigravity ", "CODEX">>

\* Auths that the loop is to pass over, one of which may stand second in the
\* list.
PassedOver ==
    { [PollAuth("p", "antigravity") EXCEPT !.Disabled = TRUE],
      [PollAuth("p", "codex") EXCEPT !.Status = StatusDisabled],
      [PollAuth("p", "gemini-cli") EXCEPT !.Attributes = [runtime_only |-> " True "]],
      PollAuth("p", "claude"),
      PollAuth("  ", "antigravity") }

MaxAuths == 7

PollIDs == <<"a1", "a2", "a3", "a4", "a5", "a6", "a7", "a8", "a9">>

PollKept ==
    [i \in 1..MaxAuths |->
        PollAuth(PollIDs[i], PollProviders[((i - 1) % Len(PollProviders)) + 1])]

\* What manager.List() may give: the auths above, all of them or with one
\* of PassedOver in the second place.
PollLists == {PollKept} \cup {[PollKept EXCEPT ![2] = a] : a \in PassedOver}

\* The auths of the lists that the loop keeps, computed once.
KeptAuths == {a \in UNION {{l[i] : i \in DOMAIN l} : l \in PollLists} : PollKeeps(a)}

SemAlwaysHasRoom(sem) == TRUE

\* The send on the channel made with capacity p.maxConcurrency can proceed.
SemHasRoom(sem) == sem < maxConcurrentRequests

\* The fetches whose pollAntigravity, pollCodex or pollGeminiCLI has not
\* returned.
InFlight(fetch) == {i \in DOMAIN fetch : fetch[i] = "running"}

NoPoller == [ppc |-> "idle"]

\* The record of a whole run notes in failedIter the first iteration in
\* which a fetch failed (request error, status outside 2xx or nothing
\* parsed: pollAntigravity logs and returns); poll itself looks at no result
\* of a fetch.
NoteFailure(p, failure) ==
    IF "failedIter" \in DOMAIN p /\ failure /\ p.failedIter = 0
    THEN [p EXCEPT !.failedIter = p.iter]
    ELSE p

PollStart ==
    \E auths \in PollLists :
        poller = [ppc |-> "loop", auths |-> auths, idx |-> 1, sem |-> 0, wg |-> 0,
                  fetch |-> [i \in DOMAIN auths |-> "none"],
                  ctxDone |-> FALSE, peak |-> 0]

\* The loop passes over the auth at idx.
PollSkip ==
    /\ poller.ppc = "loop"
    /\ poller.idx <= Len(poller.auths)
    /\ poller.auths[poller.idx] \notin KeptAuths
    /\ poller' = [poller EXCEPT !.idx = @ + 1]
    /\ UNCHANGED <<headVars, recovery, token, mirror>>

\* The select takes the send on sem: wg.Add(1) and the goroutine starts.  A
\* done context does not keep the select from this case.
PollDispatch ==
    /\ poller.ppc = "loop"
    /\ poller.idx <= Len(poller.auths)
    /\ poller.auths[poller.idx] \in KeptAuths
    /\ SemHasRoom(poller.sem)
    /\ poller' = [poller EXCEPT
            !.sem = @ + 1, !.wg = @ + 1, !.idx = @ + 1,
            !.fetch[poller.idx] = "running",
            !.peak = Max({@, Cardinality(InFlight(poller.fetch)) + 1})]
    /\ UNCHANGED <<headVars, recovery, token, mirror>>

\* The select takes <-ctx.Done(): poll returns p.interval at once.
PollAbort ==
    /\ poller.ppc = "loop"
    /\ poller.idx <= Len(poller.auths)
    /\ poller.auths[poller.idx] \in KeptAuths
    /\ poller.ctxDone
    /\ poller' = [poller EXCEPT !.ppc = "returned"]
    /\ UNCHANGED <<headVars, recovery, token, mirror>>

\* After the loop: wg.Wait() returns when the counter is 0, and poll returns.
PollReturn ==
    /\ poller.ppc = "loop"
    /\ poller.idx > Len(poller.auths)
    /\ poller.wg = 0
    /\ poller' = [poller EXCEPT !.ppc = "returned"]
    /\ UNCHANGED <<headVars, recovery, token, mirror>>

\* The fetch of a goroutine returns, with a snapshot, an error or the
\* context's error.
FetchReturn ==
    /\ \E i \in InFlight(poller.fetch) :
        \E failure \in BOOLEAN :
            poller' = [NoteFailure(poller, failure) EXCEPT !.fetch[i] = "returned"]
    /\ UNCHANGED <<headVars, recovery, token, mirror>>

\* The deferred <-sem of a goroutine.
FetchRelease ==
    /\ \E i \in DOMAIN poller.fetch :
        /\ poller.fetch[i] = "returned"
        /\ poller' = [poller EXCEPT !.fetch[i] = "released", !.sem = @ - 1]
    /\ UNCHANGED <<headVars, recovery, token, mirror>>

\* The deferred wg.Done() of a goroutine.
FetchDone ==
    /\ \E i \in DOMAIN poller.fetch :
        /\ poller.fetch[i] = "released"
        /\ poller' = [poller EXCEPT !.fetch[i] = "done", !.wg = @ - 1]
    /\ UNCHANGED <<headVars, recovery, token, mirror>>

\* The parent context is cancelled.
PollCancel ==
    /\ poller.ppc \in {"loop", "check", "enter", "sleep"}
    /\ ~poller.ctxDone
    /\ poller' = [poller EXCEPT !.ctxDone = TRUE]
    /\ UNCHANGED <<headVars, recovery, token, mirror>>

\* ---------------------------------------------------------------------
\* Poller.run: the loop around poll.  ppc is "check" at the head of the
\* loop, "enter" at the call of poll, "loop" inside poll, "returned" after
\* it, "sleep" at the select on the timer, "exited" after run returned.

MaxIterations == 2

MaxRunAuths == 3

\* What manager.List() gives an iteration of the run: no auth at all, or
\* the first auths of one of PollLists.
RunLists == {<<>>} \cup {SubSeq(l, 1, MaxRunAuths) : l \in PollLists}

CtxNeverDone(p) == FALSE

\* ctx.Err() != nil
CtxDone(p) == p.ctxDone

RunStart ==
    poller = [ppc |-> "check", auths |-> <<>>, idx |-> 1, sem |-> 0, wg |-> 0,
              fetch |-> <<>>, ctxDone |-> FALSE, peak |-> 0,
              iter |-> 0, failedIter |-> 0]

\* The head of the loop: run returns when the context is done and goes on
\* to poll otherwise.
RunCheck ==
    /\ poller.ppc = "check"
    /\ IF CtxDone(poller)
       THEN poller' = [poller EXCEPT !.ppc = "exited"]
       ELSE /\ poller.iter < MaxIterations
            /\ poller' = [poller EXCEPT !.ppc = "enter", !.iter = @ + 1]
    /\ UNCHANGED <<headVars, recovery, token, mirror>>

\* poll begins: the list of the manager, a new semaphore and wait group.
RunPoll ==
    /\ poller.ppc = "enter"
    /\ \E auths \in RunLists :
        poller' = [poller EXCEPT
            !.ppc = "loop", !.auths = auths, !.idx = 1, !.sem = 0, !.wg = 0,
            !.fetch = [i \in DOMAIN auths |-> "none"]]
    /\ UNCHANGED <<headVars, recovery, token, mirror>>

\* poll returned: run returns when the context is done and starts the timer
\* otherwise.
RunAfterPoll ==
    /\ poller.ppc = "returned"
    /\ "iter" \in DOMAIN poller
    /\ poller' = [poller EXCEPT !.ppc = IF CtxDone(poller) THEN "exited" ELSE "sleep"]
    /\ UNCHANGED <<headVars, recovery, token, mirror>>

\* The select takes <-timer.C: the interval is over and the loop goes round.
RunTimer ==
    /\ poller.ppc = "sleep"
    /\ poller' = [poller EXCEPT !.ppc = "check"]
    /\ UNCHANGED <<headVars, recovery, token, mirror>>

\* The select takes <-ctx.Done(): the timer is stopped and run returns.
RunStop ==
    /\ poller.ppc = "sleep"
    /\ poller.ctxDone
    /\ poller' = [poller EXCEPT !.ppc = "exited"]
    /\ UNCHANGED <<headVars, recovery, token, mirror>>

\* ---------------------------------------------------------------------
\* The quota snapshot mirrored in an auth's metadata: pollAntigravity parses
\* the upstream's answer and persistQuota writes it with UpdateMetadata and
\* the manager's Update.  A percent is an integer number of 1e-5 percent, so
\* that the tolerance of 1e-4 is 10 units.

PercentUnit == 100000

quotaEqualEpsilon == 10

FullPercent == 100 * PercentUnit

\* clampPercent of metadata.go on that scale.
clampPercentUnits(value) ==
    IF value < 0 THEN 0 ELSE IF value > FullPercent THEN FullPercent ELSE value

\* time.Format(time.RFC3339Nano) of the instant in UTC: every digit stays,
\* the zone is Z.
FormatRFC3339Nano(t) == [rfc3339nano |-> t, zone |-> "Z"]

\* parseTime of an item's reset_time: the instant whatever the zone written,
\* the zero time without one.
parseTime(item) ==
    IF "reset_time" \in DOMAIN item THEN item.reset_time.rfc3339nano ELSE ZeroTime

\* The model names of an upstream answer.
UpstreamNames == {"gemini-3-flash", "gemini-3-flash-preview"}

\* defaultAntigravityAliases for them, "" for a name without an alias.
antigravityAliases ==
    [n \in UpstreamNames |->
        IF n = "gemini-3-flash" THEN "gemini-3-flash-preview" ELSE ""]

\* NormalizeModelKey of every name that is a key on the way, computed once.
NormalizedKeyOf ==
    LET names == UpstreamNames \cup {antigravityAliases[n] : n \in UpstreamNames}
        once == {NormalizeModelKey(n) : n \in names}
    IN  [n \in names \cup once |-> NormalizeModelKey(n)]

\* clampPercent(remaining * 100) and parseResetTime(resetTime) of an upstream
\* record: half and full, two values within and just beyond the tolerance
\* of half; no reset time, or one of two.
UpstreamEntries ==
    { [Percent |-> 50 * PercentUnit, ResetTime |-> ZeroTime],
      [Percent |-> 50 * PercentUnit, ResetTime |-> TokenNow],
      [Percent |-> 50 * PercentUnit + quotaEqualEpsilon, ResetTime |-> TokenNow],
      [Percent |-> 50 * PercentUnit + quotaEqualEpsilon + 1, ResetTime |-> TokenNow],
      [Percent |-> FullPercent, ResetTime |-> TokenNow],
      [Percent |-> FullPercent, ResetTime |-> TokenNow + Second] }

\* root["models"] of an answer, the records without quotaInfo left out.
UpstreamPayloads == UNION {[S -> UpstreamEntries] : S \in SUBSET UpstreamNames}

addModelQuota(dst, model, entry) ==
    LET key == NormalizedKeyOf[model]
    IN  IF key = "" THEN dst
        ELSE IF key \in DOMAIN dst /\ entry.Percent <= dst[key].Percent THEN dst
        ELSE PutKey(dst, key, entry)

RECURSIVE ExtractInOrder(_, _, _)

\* The loop of extractAntigravityQuota over the records in the given order.
ExtractInOrder(models, order, out) ==
    IF order = <<>> THEN out
    ELSE
        LET name == Head(order)
            named == addModelQuota(out, name, models[name])
            alias == antigravityAliases[name]
        IN  ExtractInOrder(models, Tail(order),
                           IF alias # "" THEN addModelQuota(named, alias, models[name])
                           ELSE named)

\* extractAntigravityQuota: the loop ranges over a Go map, in any order.
extractAntigravityQuota(models) ==
    {ExtractInOrder(models, o, <<>>) : o \in Orders(DOMAIN models)}

RECURSIVE NormalizeQuotaInOrder(_, _, _)

\* The loop of normalizeModelQuota over the keys in the given order.
NormalizeQuotaInOrder(models, order, out) ==
    IF order = <<>> THEN out
    ELSE
        LET key == NormalizedKeyOf[Head(order)]
            entry == [models[Head(order)] EXCEPT !.Percent = clampPercentUnits(@)]
            skip == \/ key = ""
                    \/ key \in DOMAIN out /\ entry.Percent <= out[key].Percent
        IN  NormalizeQuotaInOrder(models, Tail(order),
                                  IF skip THEN out ELSE PutKey(out, key, entry))

normalizeModelQuota(models) ==
    {NormalizeQuotaInOrder(models, o, <<>>) : o \in Orders(DOMAIN models)}

\* parseSnapshotModels: the stored items under their normalized keys.
parseSnapshotModels(raw) ==
    LET keys == {k \in DOMAIN raw : NormalizedKeyOf[k] # ""}
    IN  [key \in {NormalizedKeyOf[k] : k \in keys} |->
            LET k == CHOOSE k \in keys : NormalizedKeyOf[k] = key
            IN  [Percent |-> clampPercentUnits(raw[k].percent),
                 ResetTime |-> parseTime(raw[k])]]

modelQuotaEqualExact(a, b) ==
    /\ Cardinality(DOMAIN a) = Cardinality(DOMAIN b)
    /\ \A key \in DOMAIN a : key \in DOMAIN b /\ a[key] = b[key]

\* modelQuotaEqual of metadata.go: the same keys, percents no more than
\* quotaEqualEpsilon apart, the same reset instants.
modelQuotaEqual(a, b) ==
    /\ Cardinality(DOMAIN a) = Cardinality(DOMAIN b)
    /\ \A key \in DOMAIN a :
        /\ key \in DOMAIN b
        /\ a[key].Percent - b[key].Percent <= quotaEqualEpsilon
        /\ b[key].Percent - a[key].Percent <= quotaEqualEpsilon
        /\ a[key].ResetTime = b[key].ResetTime

\* The providers persistQuota is called with and those of stored snapshots,
\* with strings.ToLower(strings.TrimSpace(provider)) computed once.
SnapshotProviders == {"antigravity", " Antigravity", "Antigravity", ""}

LoweredProvider == [p \in SnapshotProviders |-> ToLower(TrimSpace(p))]

TrimmedProvider == [p \in SnapshotProviders |-> TrimSpace(p)]

\* The snapshot UpdateMetadata writes.
SerializeSnapshot(provider, normalized, updatedAt) ==
    [provider |-> TrimmedProvider[provider],
     models |-> [key \in DOMAIN normalized |->
                    IF normalized[key].ResetTime = ZeroTime
                    THEN [percent |-> clampPercentUnits(normalized[key].Percent)]
                    ELSE [percent |-> clampPercentUnits(normalized[key].Percent),
                          reset_time |-> FormatRFC3339Nano(normalized[key].ResetTime)]],
     updated_at |-> FormatRFC3339Nano(updatedAt)]

\* UpdateMetadata on the map normalizeModelQuota gave: whether it changed
\* the metadata, and the metadata after the call.
UpdateMetadata(metadata, provider, normalized, updatedAt) ==
    LET has == "cliproxy_quota" \in DOMAIN metadata
        existingProvider == IF has THEN TrimmedProvider[metadata.cliproxy_quota.provider]
                            ELSE ""
        existingModels == IF has THEN parseSnapshotModels(metadata.cliproxy_quota.models)
                          ELSE <<>>
        lowered == LoweredProvider[provider]
        normalizedProvider == IF lowered # "" THEN lowered
                              ELSE IF existingProvider # "" THEN existingProvider
                              ELSE provider
        unchanged == /\ normalizedProvider = LoweredProvider[existingProvider]
                     /\ modelQuotaEqual(existingModels, normalized)
    IN  IF DOMAIN normalized = {} \/ unchanged
        THEN [changed |-> FALSE, metadata |-> metadata]
        ELSE [changed |-> TRUE,
              metadata |-> sjsonSet(metadata, "cliproxy_quota",
                                    SerializeSnapshot(provider, normalized, updatedAt))]

\* GetPercentFromMetadata: the percent mirrored for the model, then the one
\* under "*"; the items the poller wrote all hold a percent.
GetPercentFromMetadata(metadata, model) ==
    IF "cliproxy_quota" \notin DOMAIN metadata THEN [percent |-> 0, ok |-> FALSE]
    ELSE
        LET rawModels == metadata.cliproxy_quota.models
            key == NormalizedKeyOf[model]
            lookup == IF key = "" THEN "*" ELSE key
        IN  IF lookup \in DOMAIN rawModels
            THEN [percent |-> clampPercentUnits(rawModels[lookup].percent), ok |-> TRUE]
            ELSE IF "*" \in DOMAIN rawModels
            THEN [percent |-> clampPercentUnits(rawModels["*"].percent), ok |-> TRUE]
            ELSE [percent |-> 0, ok |-> FALSE]

MaxPolls == 2

\* The metadata of the auth before the first poll: without a snapshot, or
\* with one written elsewhere, its provider capitalized and its reset time in
\* another zone.
StoredMetadata ==
    { [access_token |-> "ya29.stored"],
      [access_token |-> "ya29.stored",
       cliproxy_quota |->
           [provider |-> " Antigravity",
            models |-> [k \in {"gemini-3-flash"} |->
                           [percent |-> 50 * PercentUnit,
                            reset_time |-> [rfc3339nano |-> TokenNow, zone |-> "+08:00"]]],
            updated_at |-> FormatRFC3339Nano(TokenNow - Second)]] }

NoMirror == [mpc |-> "idle"]

MirrorStart ==
    \E metadata \in StoredMetadata :
        mirror = [mpc |-> "poll", metadata |-> metadata, before |-> metadata,
                  polls |-> 0, now |-> TokenNow, updates |-> 0,
                  upstream |-> <<>>, previous |-> <<>>, fetched |-> <<>>,
                  changed |-> FALSE, issued |-> FALSE, issuedBefore |-> FALSE]

\* One pollAntigravity of the auth the manager lists: a 2xx answer is parsed,
\* persistQuota clones the auth, calls UpdateMetadata on the clone and, when
\* that reports a change, the manager's Update, which stores the clone.
MirrorPoll ==
    /\ mirror.mpc = "poll"
    /\ mirror.polls < MaxPolls
    /\ \E upstream \in UpstreamPayloads :
        \E models \in extractAntigravityQuota(upstream) :
            \E normalized \in normalizeModelQuota(models) :
                LET t == mirror.now + Second
                    u == UpdateMetadata(mirror.metadata, "antigravity", normalized, t)
                    issue == DOMAIN models # {} /\ u.changed
                IN  mirror' = [mirror EXCEPT
                        !.polls = @ + 1, !.now = t,
                        !.before = mirror.metadata,
                        !.metadata = IF issue THEN u.metadata ELSE @,
                        !.updates = IF issue THEN @ + 1 ELSE @,
                        !.previous = mirror.upstream,
                        !.upstream = upstream,
                        !.fetched = normalized,
                        !.changed = issue,
                        !.issued = issue,
                        !.issuedBefore = mirror.issued]
    /\ UNCHANGED <<headVars, recovery, token, poller>>


\* ---------------------------------------------------------------------
\* The lookups by model name, called on a name and called again.

NoLookups == [lpc |-> "idle"]

\* Model names as callers write them: with white space around them, a path
\* in front, capitals, and thinking-suffix markers at the end.
NormalizePrefixes == <<"", " ", "models/">>

NormalizeNames == <<"gpt-4", "GPT-4", "gemini-2.5-pro">>

NormalizeMarkers == <<"", "-thinking", "-thinking-thinking", "-THINKING">>

NormalizeEndings == <<"", " ">>

NormalizeInputs ==
    {"", " ", "/", "*", "-thinking", "models/"}
        \cup {NormalizePrefixes[a] \o NormalizeNames[b] \o NormalizeMarkers[c]
                    \o NormalizeEndings[d] :
                a \in DOMAIN NormalizePrefixes, b \in DOMAIN NormalizeNames,
                c \in DOMAIN NormalizeMarkers, d \in DOMAIN NormalizeEndings}

NormalizeStart ==
    \E model \in NormalizeInputs :
        lookups = [lpc |-> "normalize", model |-> model, keys |-> <<>>]

\* NormalizeModelKey of the name, then of the key it returned.
NormalizeCall ==
    /\ lookups.lpc = "normalize"
    /\ Len(lookups.keys) < 2
    /\ LET arg == IF lookups.keys = <<>> THEN lookups.model
                  ELSE lookups.keys[Len(lookups.keys)]
       IN  lookups' = [lookups EXCEPT !.keys = Append(@, NormalizeModelKey(arg))]
    /\ UNCHANGED <<oldVars, feed>>

\* Model names callers hand to GetAntigravityQuotaGroupID: the listed
\* members, their bases, both with a date or a preview suffix, names of no
\* group, a group id, and the empty string.
GroupLookupSuffixes == {"", "-thinking", "-20250929", "-preview"}

GroupLookupNames ==
    {TrimSuffix(baseModel, "-thinking") \o suffix :
        baseModel \in UNION {antigravityQuotaGroups[g] : g \in GroupIDs},
        suffix \in GroupLookupSuffixes}
        \cup {"", "gemini-2.5-pro", "gpt-4", "claude-gpt"}

GroupLookupStart ==
    \E model \in GroupLookupNames :
        lookups = [lpc |-> "group", model |-> model, ids |-> <<>>]

\* GetAntigravityQuotaGroupID called for the name, twice.
GroupLookupCall ==
    /\ lookups.lpc = "group"
    /\ Len(lookups.ids) < 2
    /\ \E groupID \in GetAntigravityQuotaGroupID(lookups.model) :
            lookups' = [lookups EXCEPT !.ids = Append(@, groupID)]
    /\ UNCHANGED <<oldVars, feed>>

NoFeed == [fpc |-> "idle"]

(***************************************************************************)
(* ExecuteStream: the goroutine that scans the upstream body and sends the *)
(* translated chunks on the unbuffered channel out, and the caller that    *)
(* receives from it.                                                       *)
(***************************************************************************)
MaxLines == 2

MaxChunks == 2

\* An upstream line: whether jsonPayload finds a payload in it and how many
\* chunks TranslateStream makes of that payload.
StreamLines ==
    {[payload |-> FALSE, chunks |-> 0]} \cup {[payload |-> TRUE, chunks |-> c] : c \in 0 .. MaxChunks}

\* The place of the [DONE] sentinel among the lines 1, 2, ... of the body.
DoneLine == 0

\* The k-th chunk TranslateStream returns for the payload of line from.
StreamChunk(from, k) == [Payload |-> <<from, k>>]

\* The chunk that carries scanner.Err().
ErrChunk == [Err |-> "errScan"]

ChunksOf(from, count) == [k \in 1 .. count |-> StreamChunk(from, k)]

StreamStart ==
    \E n \in 0 .. MaxLines :
        \E body \in [1 .. n -> StreamLines], errScan \in BOOLEAN, tail \in 0 .. 1 :
            feed = [fpc |-> "scan", body |-> body, errScan |-> errScan, tail |-> tail,
                    scanned |-> 0, pending |-> <<>>, out |-> <<>>, closed |-> FALSE,
                    receiving |-> TRUE, reported |-> "none"]

\* scanner.Scan(): the next line, skipped without a payload and translated
\* otherwise; after the last line, or at the read error, the translation of
\* [DONE].
StreamScan ==
    /\ feed.fpc = "scan"
    /\ IF feed.scanned < Len(feed.body)
       THEN LET line == feed.body[feed.scanned + 1]
                chunks == ChunksOf(feed.scanned + 1, line.chunks)
            IN  feed' = [feed EXCEPT !.scanned = @ + 1,
                                     !.pending = IF line.payload THEN chunks ELSE <<>>,
                                     !.fpc = IF line.payload /\ chunks # <<>> THEN "send"
                                             ELSE "scan"]
       ELSE feed' = [feed EXCEPT !.pending = ChunksOf(DoneLine, feed.tail), !.fpc = "tail"]
    /\ UNCHANGED <<oldVars, lookups>>

\* out <- chunk: the send completes when the caller receives.
StreamSend ==
    /\ feed.fpc \in {"send", "tail", "err"}
    /\ feed.pending # <<>>
    /\ feed.receiving
    /\ feed' = [feed EXCEPT !.out = Append(@, Head(feed.pending)),
                            !.pending = Tail(@),
                            !.fpc = IF Tail(feed.pending) # <<>> THEN @
                                    ELSE IF @ = "send" THEN "scan"
                                    ELSE IF @ = "err" THEN "return"
                                    ELSE @]
    /\ UNCHANGED <<oldVars, lookups>>

\* The tail sent, scanner.Err() is dropped and the stream ends as if the
\* body had been read to its end.
StreamTailDroppingError ==
    /\ feed.fpc = "tail"
    /\ feed.pending = <<>>
    /\ feed' = [feed EXCEPT !.reported = "published", !.fpc = "return"]
    /\ UNCHANGED <<oldVars, lookups>>

\* The tail sent: on scanner.Err() the failure is published and the error
\* chunk is next, otherwise the usage is published.
StreamTail ==
    /\ feed.fpc = "tail"
    /\ feed.pending = <<>>
    /\ feed' = IF feed.errScan
               THEN [feed EXCEPT !.reported = "failure", !.pending = <<ErrChunk>>,
                                 !.fpc = "err"]
               ELSE [feed EXCEPT !.reported = "published", !.fpc = "return"]
    /\ UNCHANGED <<oldVars, lookups>>

\* The goroutine returns: the deferred close(out).
StreamClose ==
    /\ feed.fpc = "return"
    /\ feed' = [feed EXCEPT !.closed = TRUE, !.fpc = "exited"]
    /\ UNCHANGED <<oldVars, lookups>>

\* The caller stops receiving before the channel is closed (its request was
\* cancelled, its client went away).
ConsumerStop ==
    /\ feed.fpc \notin {"idle", "exited"}
    /\ feed.receiving
    /\ feed' = [feed EXCEPT !.receiving = FALSE]
    /\ UNCHANGED <<oldVars, lookups>>

LateIdle ==
    /\ lookups = NoLookups
    /\ feed = NoFeed

TailIdle ==
    /\ recovery = NoRecovery
    /\ token = NoToken
    /\ poller = NoPoller
    /\ mirror = NoMirror
    /\ LateIdle

LaterIdle == StoreIdle /\ ExecIdle /\ TailIdle

RestIdle == CowIdle /\ LaterIdle

\* The state of the part that a specification leaves alone.
TrackerIdle ==
    /\ now = 1
    /\ ModelStates = <<>>
    /\ seeded = FALSE
    /\ timers = <<>>
    /\ timerState = <<>>
    /\ calls = 0
    /\ lastUpdate = NoUpdate

SelIdle ==
    /\ priority = [id \in AuthIDs |-> 0]
    /\ authState = [id \in AuthIDs |-> ZeroTime]
    /\ quota = [id \in AuthIDs |-> Unknown]
    /\ rrCursor = 0
    /\ fallbackCursor = 0
    /\ cursors = <<>>
    /\ picks = 0
    /\ envSteps = 0
    /\ lastPick = NoPick

(***************************************************************************)
(* Specifications.                                                         *)
(***************************************************************************)
\* The proactive quota tracker.
Init == TrackerInit /\ SelIdle /\ RRIdle /\ RestIdle

Next == Update \/ TimerExpire \/ TimerCallback \/ CancelQuotaRefresh \/ Tick

Spec == Init /\ [][Next]_vars

\* The quota recovery scheduler on its own: scheduleQuotaRefresh and
\* CancelQuotaRefresh called for two auths in any order while timers fire.
SchedAuths == {"auth-1", "auth-2"}

MaxSchedules == 3

Schedule ==
    /\ Len(timerState) < MaxSchedules
    /\ \E authID \in SchedAuths, resetTime \in ZeroTime .. MaxTime :
        LET sched == scheduleQuotaRefresh(timers, timerState, authID, resetTime, now)
        IN  /\ timers' = sched.timers
            /\ timerState' = sched.timerState
    /\ UNCHANGED <<now, ModelStates, calls, seeded, lastUpdate>>
    /\ UNCHANGED <<selVars, rrVars, restVars>>

Cancel ==
    /\ \E authID \in SchedAuths : CancelQuotaRefreshFor(authID)
    /\ UNCHANGED <<now, ModelStates, calls, seeded, lastUpdate>>
    /\ UNCHANGED <<selVars, rrVars, restVars>>

\* The parts declared before the last four, at rest.
HeadIdle == TrackerIdle /\ SelIdle /\ RRIdle /\ CowIdle /\ StoreIdle /\ ExecIdle /\ LateIdle

OldIdle ==
    /\ TrackerIdle /\ SelIdle /\ RRIdle /\ CowIdle /\ StoreIdle /\ ExecIdle
    /\ recovery = NoRecovery /\ token = NoToken /\ poller = NoPoller /\ mirror = NoMirror

SchedInit == TrackerIdle /\ SelIdle /\ RRIdle /\ RestIdle

SchedNext == Schedule \/ TimerExpire \/ TimerCallback \/ Cancel \/ Tick

SpecSched == SchedInit /\ [][SchedNext]_vars

\* The quota store: calls in any order, Flush step by step, an interruption
\* at any step and the next process's NewStore.
StoreInit ==
    TrackerIdle /\ SelIdle /\ RRIdle /\ CowIdle /\ StoreStart /\ ExecIdle /\ TailIdle

StoreNext ==
    \/ Set \/ ReadPercent \/ ReadEntry \/ Delete
    \/ FlushClean \/ FlushOpenTmp \/ FlushWriteTmp \/ FlushWriteTmpFail
    \/ FlushRename \/ FlushRenameFail
    \/ Interrupt \/ NewStore

SpecStore == StoreInit /\ [][StoreNext]_vars

\* One call of the executor: the attempts and, in each, the walk over the
\* base URLs, with every response the upstream may give.
ExecInit ==
    TrackerIdle /\ SelIdle /\ RRIdle /\ CowIdle /\ StoreIdle /\ ExecStart /\ TailIdle

ExecNext ==
    ExecPrepare \/ ExecPrepareFail \/ ExecRequest \/ ExecWaitDone \/ ExecWaitCanceled
    \/ ExecCancel \/ StreamEnd \/ StreamScanError

SpecExec == ExecInit /\ [][ExecNext]_vars

\* The steps of the call itself: its goroutine runs, every request gets an
\* outcome and every timer fires.
ExecStep ==
    ExecPrepare \/ ExecPrepareFail \/ ExecRequest \/ ExecWaitDone \/ ExecWaitCanceled

SpecExecLive == ExecInit /\ [][ExecNext]_vars /\ WF_vars(ExecStep)

\* One call of Execute or ExecuteStream from the client request on: the
\* function that serves it, its requests, and the calls on the usage
\* reporters.
CallInit ==
    TrackerIdle /\ SelIdle /\ RRIdle /\ CowIdle /\ StoreIdle /\ CallStart /\ TailIdle

CallNext == ExecNext \/ WebSearchNoQuery \/ WebSearchRequest

SpecCall == CallInit /\ [][CallNext]_vars

\* One client request through the signature recovery, and the rewrite of
\* its payload by either file's function.
RecoveryInit == HeadIdle /\ RecoveryStart /\ token = NoToken /\ poller = NoPoller /\ mirror = NoMirror

RecoveryNext == ConvertThinking \/ RecoverySend

SpecRecovery == RecoveryInit /\ [][RecoveryNext]_vars

\* One ensureAccessToken call on every stored auth, with every answer of the
\* token endpoint.
TokenInit == HeadIdle /\ recovery = NoRecovery /\ TokenStart /\ poller = NoPoller /\ mirror = NoMirror

TokenNext == EnsureAccessToken \/ RefreshTokenReturn

SpecToken == TokenInit /\ [][TokenNext]_vars

\* One iteration of the poller over a list of auths, its goroutines in any
\* interleaving, the context cancelled at any moment.
PollInit == HeadIdle /\ recovery = NoRecovery /\ token = NoToken /\ PollStart /\ mirror = NoMirror

PollNext ==
    \/ PollSkip \/ PollDispatch \/ PollAbort \/ PollReturn
    \/ FetchReturn \/ FetchRelease \/ FetchDone \/ PollCancel

SpecPoll == PollInit /\ [][PollNext]_vars

\* NormalizeModelKey on a name and on its own result.
NormalizeInit == OldIdle /\ NormalizeStart /\ feed = NoFeed

NormalizeNext == NormalizeCall

SpecNormalize == NormalizeInit /\ [][NormalizeNext]_vars

\* The two readers of a fetchAvailableModels answer side by side: a call of
\* UpdateAntigravityQuotaState on an auth that may carry model states and a
\* pending refresh timer, and a poll of an auth that may carry a snapshot.
QuotalessStart ==
    /\ now = 1
    /\ ModelStates \in SeedStates
    /\ seeded = (DOMAIN ModelStates # {})
    /\ \E sched \in {[timers |-> <<>>, timerState |-> <<>>],
                      scheduleQuotaRefresh(<<>>, <<>>, AuthID, MaxTime, 1)} :
        /\ timers = sched.timers
        /\ timerState = sched.timerState
    /\ calls = MaxCalls - 1
    /\ lastUpdate = NoUpdate
    /\ \E metadata \in StoredMetadata :
        mirror = [mpc |-> "poll", metadata |-> metadata, before |-> metadata,
                  polls |-> MaxPolls - 1, now |-> TokenNow, updates |-> 0,
                  upstream |-> <<>>, previous |-> <<>>, fetched |-> <<>>,
                  changed |-> FALSE, issued |-> FALSE, issuedBefore |-> FALSE]

QuotalessInit ==
    /\ QuotalessStart
    /\ SelIdle /\ RRIdle /\ CowIdle /\ StoreIdle /\ ExecIdle
    /\ recovery = NoRecovery /\ token = NoToken /\ poller = NoPoller
    /\ LateIdle

QuotalessNext == Update \/ MirrorPoll

SpecQuotaless == QuotalessInit /\ [][QuotalessNext]_vars

\* The whole run of the poller.  The scheduler runs every goroutine that can
\* take a step, every request ends within requestTimeout and the timer
\* fires: each step of the run and of the goroutines is weakly fair; the
\* cancellation is the caller's and need not come.
RunInit == HeadIdle /\ recovery = NoRecovery /\ token = NoToken /\ mirror = NoMirror /\ RunStart

RunSteps ==
    \/ RunCheck \/ RunPoll \/ RunAfterPoll \/ RunTimer \/ RunStop
    \/ PollSkip \/ PollDispatch \/ PollAbort \/ PollReturn

FetchSteps == FetchReturn \/ FetchRelease \/ FetchDone

RunNext == RunSteps \/ FetchSteps \/ PollCancel

SpecRun == RunInit /\ [][RunNext]_vars /\ WF_vars(RunSteps) /\ WF_vars(FetchSteps)

\* Polls of one auth in a row, each with any answer of the upstream and any
\* order of Go's map iteration.
MirrorInit == HeadIdle /\ recovery = NoRecovery /\ token = NoToken /\ poller = NoPoller /\ MirrorStart

MirrorNext == MirrorPoll

SpecMirror == MirrorInit /\ [][MirrorNext]_vars

\* One UpdateAntigravityQuotaState call at a time, step by step, with a
\* concurrent reader of auth.ModelStates.
CowInit == TrackerIdle /\ SelIdle /\ RRIdle /\ CowStart /\ LaterIdle

CowNext == UpdateCopy \/ UpdateMark \/ UpdateClear \/ UpdatePublish \/ ReaderLoad

SpecCow == CowInit /\ [][CowNext]_vars

\* The selector family, with the QuotaWeightedSelector that excludes
\* exhausted auths.
SelNext ==
    \/ PickRoundRobin \/ PickFillFirst \/ PickQuotaWeighted
    \/ SetQuota \/ Cooldown \/ SelTick

SelectorsInit == TrackerIdle /\ SelInit /\ RRIdle /\ RestIdle

SpecSel == SelectorsInit /\ [][SelNext]_vars

\* The selector family, with the QuotaWeightedSelector of quota_selector.go.
ScaledNext ==
    \/ PickRoundRobin \/ PickFillFirst \/ PickQuotaWeightedScaled
    \/ SetQuota \/ Cooldown \/ SelTick

SpecSelScaled == SelectorsInit /\ [][ScaledNext]_vars

\* Goroutines calling RoundRobinSelector.Pick concurrently on a fixed set of
\* auths, some of which may be in cooldown from the start.
RRInit ==
    /\ TrackerIdle
    /\ RRIdle
    /\ RestIdle
    /\ priority \in PriorityConfigs
    /\ authState \in {[id \in AuthIDs |-> ZeroTime],
                       [id \in AuthIDs |-> IF id = 1 THEN MaxTime + 1 ELSE ZeroTime],
                       [id \in AuthIDs |-> MaxTime + 1]}
    /\ quota = [id \in AuthIDs |-> Unknown]
    /\ rrCursor = 0
    /\ fallbackCursor = 0
    /\ cursors = <<>>
    /\ picks = 0
    /\ envSteps = 0
    /\ lastPick = NoPick

RRNext == \E g \in Goroutines : RRFilter(g) \/ RRAdvance(g) \/ RRReturn(g) \/ RRFail(g)

SpecRR == RRInit /\ [][RRNext]_vars

(***************************************************************************)
(* Properties.                                                             *)
(***************************************************************************)
\* The models that share the quota pool of group g.
GroupMembers(g) == IF g \in GroupIDs THEN antigravityQuotaGroups[g] ELSE {g}

Updated == lastUpdate.op = "update"

\* C1: after an update in which a model of group g is reported exhausted with
\* effective reset time t, every member model of g has a model state with
\* NextRetryAfter >= t and Quota.Exceeded.
C1_GroupMembersBlocked ==
    Updated =>
        \A g \in DOMAIN lastUpdate.exhaustedGroups : \A m \in GroupMembers(g) :
            /\ m \in DOMAIN ModelStates
            /\ ModelStates[m].NextRetryAfter >= lastUpdate.exhaustedGroups[g]
            /\ ModelStates[m].Quota.Exceeded

\* The reported models with quota left none of whose possible groups is the
\* possible group of a model reported exhausted.
HealthyOutsideExhaustedGroups ==
    {m \in lastUpdate.reported \ lastUpdate.exhausted :
        \A x \in lastUpdate.exhausted : GroupIDOf[x] \cap GroupIDOf[m] = {}}

\* C2: after an update that reports m with quota left and no model of m's
\* group exhausted, the model state of m, if there is one, has
\* Quota.Exceeded = FALSE.
C2_RecoveredModelCleared ==
    Updated =>
        \A m \in HealthyOutsideExhaustedGroups :
            m \in DOMAIN ModelStates => ~ModelStates[m].Quota.Exceeded

\* A state after an update that found the quota flag set on such a model.
C2_Witness ==
    /\ Updated
    /\ \E m \in HealthyOutsideExhaustedGroups :
        /\ m \in lastUpdate.cleared
        /\ m \in DOMAIN ModelStates
        /\ ~ModelStates[m].Quota.Exceeded

\* The highest priority tier among the auths the last Pick found unblocked.
SeenTier ==
    IF lastPick.unblocked = {} THEN {}
    ELSE {id \in lastPick.unblocked :
            priority[id] = Max({priority[x] : x \in lastPick.unblocked})}

SeenKnownPositive == {id \in SeenTier : lastPick.quota[id].known /\ lastPick.quota[id].Percent > 0}

SeenKnownZero == {id \in SeenTier : lastPick.quota[id].known /\ lastPick.quota[id].Percent = 0}

SeenUnknown == {id \in SeenTier : ~lastPick.quota[id].known}

QuotaPicked == lastPick.sel = "quota-weighted"

\* C3: a quota-weighted Pick whose candidates include an auth with known
\* quota > 0 never returns an auth whose known quota is 0.
C3_NeverPicksKnownZero ==
    (QuotaPicked /\ SeenKnownPositive # {}) => lastPick.auth \notin SeenKnownZero

\* C4: a quota-weighted Pick all of whose available candidates have a known
\* quota of 0 returns auth_not_found and no auth.
C4_AllZeroIsNotFound ==
    (QuotaPicked /\ SeenTier # {} /\ SeenKnownZero = SeenTier) =>
        (lastPick.auth = NoAuth /\ lastPick.err = "auth_not_found")

\* C5: a quota-weighted Pick whose candidates include an auth with known
\* quota > 0 never returns an auth whose quota is unknown.
C5_NeverPicksUnknownOverKnown ==
    (QuotaPicked /\ SeenKnownPositive # {}) => lastPick.auth \notin SeenUnknown

\* The auths a concurrent round-robin run cycles over: the unblocked auths of
\* the highest priority tier that has one.
Unblocked == {id \in AuthIDs : authState[id] <= now}

RRTier ==
    IF Unblocked = {} THEN {}
    ELSE {id \in Unblocked : priority[id] = Max({priority[x] : x \in Unblocked})}

AllIdle == \A g \in Goroutines : pc[g] = "idle"

\* C6: under any interleaving of concurrent round-robin Pick calls over a
\* fixed set of n available candidates, no call fails, and once k*n calls
\* have returned each candidate has been returned exactly k times.
C6_ConcurrentRoundRobinIsFair ==
    RRTier # {} =>
        /\ ~failed
        /\ (AllIdle /\ picks % Cardinality(RRTier) = 0) =>
                \A id \in RRTier : returned[id] = picks \div Cardinality(RRTier)

\* Two full rounds over three candidates have been returned.
C6_Witness ==
    /\ AllIdle
    /\ Cardinality(RRTier) = 3
    /\ picks = 6
    /\ \A id \in RRTier : returned[id] = 2

\* The number of auths of S with an id below id.
Rank(id, S) == Cardinality({x \in S : x < id})

\* C7: sequential round-robin picks over a fixed candidate set return the
\* candidates in ascending id order, cyclically, whatever the order the auths
\* were passed in: the i-th pick (from 0) returns the candidate of rank i mod n.
C7_RoundRobinCyclesInIDOrder ==
    (lastPick.sel = "round-robin" /\ lastPick.only /\ lastPick.steady
        /\ SeenTier # {}) =>
        /\ lastPick.auth \in SeenTier
        /\ Rank(lastPick.auth, SeenTier) = (picks - 1) % Cardinality(SeenTier)

\* The third pick over a tier of two wraps around to the first auth.
C7_Witness ==
    /\ lastPick.sel = "round-robin" /\ lastPick.only /\ lastPick.steady
    /\ picks = 3
    /\ SeenTier = {1, 2}
    /\ lastPick.auth = 1

\* C8: no selector returns an auth of a lower priority than the highest
\* priority that has an available auth.
C8_OnlyHighestAvailableTier ==
    (lastPick.sel # "none" /\ lastPick.auth # NoAuth) => lastPick.auth \in SeenTier

\* A quota-weighted pick made while a lower-priority auth with quota left
\* was available.
C8_Witness ==
    /\ QuotaPicked
    /\ lastPick.auth \in SeenTier
    /\ \E id \in lastPick.unblocked \ SeenTier :
        lastPick.quota[id].known /\ lastPick.quota[id].Percent > 0

\* C9: FillFirstSelector.Pick returns the available auth with the smallest id
\* of the highest available tier; as the result depends on that tier only,
\* repeated picks over an unchanged candidate set return the same auth.
C9_FillFirstPicksSmallestID ==
    (lastPick.sel = "fill-first" /\ SeenTier # {}) =>
        /\ lastPick.err = ""
        /\ lastPick.auth \in SeenTier
        /\ \A id \in SeenTier : lastPick.auth <= id

\* A second fill-first pick in a row over a tier of several auths.
C9_Witness ==
    /\ lastPick.sel = "fill-first" /\ lastPick.only
    /\ picks >= 2
    /\ Cardinality(SeenTier) >= 2
    /\ lastPick.auth = 1

\* The auths of the highest priority value, blocked or not.
HighestTier == {id \in AuthIDs : priority[id] = Max({priority[x] : x \in AuthIDs})}

\* C10: when every auth of the highest priority tier is blocked for the model
\* and a lower-priority auth is available, FillFirstSelector.Pick returns a
\* lower-priority auth and no error.
C10_FillFirstFallsBackToLowerTier ==
    (/\ lastPick.sel = "fill-first"
     /\ HighestTier \cap lastPick.unblocked = {}
     /\ lastPick.unblocked # {}) =>
        /\ lastPick.err = ""
        /\ lastPick.auth \in lastPick.unblocked \ HighestTier

\* The high-priority auth is in cooldown and fill-first returned a low one.
C10_Witness ==
    /\ lastPick.sel = "fill-first"
    /\ HighestTier \cap lastPick.unblocked = {}
    /\ lastPick.auth \in AuthIDs \ HighestTier

\* C11: no selector returns an auth whose model state is unavailable with a
\* NextRetryAfter later than the time of the Pick, and a Pick that finds
\* every auth so blocked returns an error and no auth.
C11_NeverPicksBlockedAuth ==
    lastPick.sel # "none" =>
        /\ lastPick.auth # NoAuth => lastPick.auth \in lastPick.unblocked
        /\ lastPick.unblocked = {} => (lastPick.auth = NoAuth /\ lastPick.err # "")

\* A quota-weighted Pick returned an auth while another auth was blocked.
C11_Witness ==
    /\ QuotaPicked
    /\ lastPick.auth # NoAuth
    /\ lastPick.unblocked # AuthIDs
    /\ lastPick.auth \in lastPick.unblocked

\* The timers of an auth that are armed: created, neither stopped nor fired.
PendingTimers(authID) ==
    {id \in DOMAIN timerState :
        timerState[id].auth = authID /\ timerState[id].st = "pending"}

\* C12: under every interleaving of scheduleQuotaRefresh calls, timer
\* firings and CancelQuotaRefresh calls, at most one quota-refresh timer is
\* pending per auth id.
C12_AtMostOnePendingTimer ==
    \A authID \in SchedAuths : Cardinality(PendingTimers(authID)) <= 1

\* C13: a reader that loaded auth.ModelStates before or during an update
\* holds a map that is never written again: what it sees at any later moment
\* is what it saw when it loaded the map, and that is a content
\* auth.ModelStates had when it was assigned (the entire old map or the
\* entire new map).
C13_ReaderSeesOldOrNewMap ==
    reader.ref # NoMap =>
        /\ View(heap, maps[reader.ref]) = reader.seen
        /\ reader.seen \in publishedViews

\* The reader still holds a non-empty old map after an update has published
\* a new map with other contents.
C13_Witness ==
    /\ reader.ref # NoMap
    /\ reader.ref # authMap
    /\ DOMAIN reader.seen # {}
    /\ upc = "idle"
    /\ View(heap, maps[authMap]) # reader.seen
    /\ View(heap, maps[reader.ref]) = reader.seen

\* The entry stored for authID in q has this provider and, key by key, the
\* percents and reset times of normalized.
SameAsStored(q, authID, provider, normalized) ==
    /\ authID \in DOMAIN q
    /\ q[authID].Provider = provider
    /\ DOMAIN q[authID].Models = DOMAIN normalized
    /\ \A k \in DOMAIN normalized :
        /\ q[authID].Models[k].Percent = normalized[k].Percent
        /\ q[authID].Models[k].ResetTime = normalized[k].ResetTime

\* C14: Store.Set with a provider and a model map whose normalized form
\* equals the stored entry returns false and leaves the entries and the dirty
\* flag as they were; the Flush that follows it on a clean store returns nil
\* and writes no file.
C14_SetOfStoredEntryChangesNothing ==
    /\ (/\ lastOp.op = "Set"
        /\ SameAsStored(lastOp.pre.AuthQuotas, lastOp.authID, lastOp.provider,
                        lastOp.normalized))
        => /\ ~lastOp.ok
           /\ AuthQuotas = lastOp.pre.AuthQuotas
           /\ dirty = lastOp.pre.dirty
    /\ (/\ lastOp.op \in {"Flush", "saveLocked"}
        /\ lastOp.prev.op = "Set"
        /\ ~lastOp.prev.ok
        /\ SameAsStored(lastOp.pre.AuthQuotas, lastOp.prev.authID,
                        lastOp.prev.provider, lastOp.prev.normalized)
        /\ ~lastOp.pre.dirty)
        => /\ lastOp.op = "Flush"
           /\ ~lastOp.err
           /\ files = lastOp.pre.files
           /\ ~dirty

\* A Flush has returned after a Set that found its model map equal to the
\* stored entry, on a store that was clean and has a quota file.
C14_Witness ==
    /\ lastOp.op = "Flush"
    /\ lastOp.prev.op = "Set"
    /\ ~lastOp.prev.ok
    /\ SameAsStored(AuthQuotas, lastOp.prev.authID, lastOp.prev.provider,
                    lastOp.prev.normalized)
    /\ ~lastOp.pre.dirty
    /\ files = lastOp.pre.files
    /\ files.target.exists

\* C15: GetPercent returns the percent stored under the normalized model key
\* when the auth's entry has that key, the percent of the wildcard key "*"
\* only when it has not, and ok = false when the auth is unknown or the entry
\* has neither key.
C15_GetPercentLookupOrder ==
    lastOp.op = "GetPercent" =>
        LET q == lastOp.pre.AuthQuotas
            key == NormalizeModelKey(lastOp.model)
        IN  IF lastOp.authID \notin DOMAIN q
            THEN ~lastOp.ok
            ELSE IF key \in DOMAIN q[lastOp.authID].Models
            THEN lastOp.ok /\ lastOp.percent = q[lastOp.authID].Models[key].Percent
            ELSE IF "*" \in DOMAIN q[lastOp.authID].Models
            THEN lastOp.ok /\ lastOp.percent = q[lastOp.authID].Models["*"].Percent
            ELSE ~lastOp.ok

\* GetPercent was asked for a raw model name whose normalized key is stored
\* next to a wildcard key with another percent, and returned the per-model
\* percent.
C15_Witness ==
    /\ lastOp.op = "GetPercent"
    /\ lastOp.ok
    /\ lastOp.authID \in DOMAIN AuthQuotas
    /\ NormalizeModelKey(lastOp.model) # lastOp.model
    /\ {NormalizeModelKey(lastOp.model), "*"} \subseteq DOMAIN AuthQuotas[lastOp.authID].Models
    /\ lastOp.percent = AuthQuotas[lastOp.authID].Models[NormalizeModelKey(lastOp.model)].Percent
    /\ lastOp.percent # AuthQuotas[lastOp.authID].Models["*"].Percent

\* C16: from Delete(auth) until the next Set for that auth, GetPercent and
\* GetEntry return ok = false for it; Delete removes the auth's entry, sets
\* dirty exactly when an entry existed, and leaves every other auth's entry
\* as it was.
C16_DeleteRemovesOnlyThatAuth ==
    /\ (lastOp.op \in {"GetPercent", "GetEntry"} /\ lastOp.authID \in deletedSince)
        => ~lastOp.ok
    /\ lastOp.op = "Delete" =>
        LET q == lastOp.pre.AuthQuotas
        IN  /\ lastOp.authID \notin DOMAIN AuthQuotas
            /\ dirty = (lastOp.pre.dirty \/ lastOp.authID \in DOMAIN q)
            /\ DOMAIN AuthQuotas = DOMAIN q \ {lastOp.authID}
            /\ \A other \in DOMAIN AuthQuotas : AuthQuotas[other] = q[other]
            /\ files = lastOp.pre.files

\* GetPercent returned ok = false for an auth that the quota file still
\* lists, after a Delete of that auth made the store dirty, while another
\* auth kept its entry.
C16_Witness ==
    /\ lastOp.op = "GetPercent"
    /\ ~lastOp.ok
    /\ lastOp.authID \in deletedSince
    /\ lastOp.authID \in DOMAIN files.target.AuthQuotas
    /\ lastOp.prev.op = "Delete"
    /\ lastOp.prev.authID = lastOp.authID
    /\ dirty
    /\ DOMAIN AuthQuotas # {}

\* Flush was interrupted: the process was killed, or saveLocked returned an
\* error.
FlushInterrupted ==
    \/ spc = "down"
    \/ lastOp.op = "Flush" /\ lastOp.err

\* The file at filePath is never a partial write.
TargetNeverPartial == files.target.exists => files.target.complete

\* C17: Flush is atomic with respect to an interruption at any step: the
\* file at filePath never holds a partial write, and after an interruption at
\* most one of filePath + ".tmp" and filePath exists.
C17_FlushAtomic ==
    /\ TargetNeverPartial
    /\ FlushInterrupted => ~(files.tmp.exists /\ files.target.exists)

\* The response is a 503 that says no capacity is available.
IsNoCapacity(r) ==
    /\ r.kind = "status"
    /\ r.code = 503
    /\ r.body \in {"No capacity available for model", "no capacity available"}

Is2xx(r) == r.kind = "status" /\ r.code >= 200 /\ r.code < 300

Sleeps == {i \in DOMAIN trace : trace[i].kind = "sleep"}

\* C18: when the first of several base URLs answers 503 'no capacity
\* available', the next thing the call does is the request to the next base
\* URL, in the same attempt and without a backoff wait; when that one answers
\* 2xx the call returns its response, with the attempt counter where it was.
C18_FallbackConsumesNoAttempt ==
    \A i \in DOMAIN trace :
        (/\ trace[i].kind = "request"
         /\ trace[i].idx = 1
         /\ Len(baseURLs) >= 2
         /\ IsNoCapacity(trace[i].response))
        => IF i = Len(trace)
           THEN epc = "request" /\ baseIdx = 2 /\ attempt = trace[i].attempt
           ELSE /\ trace[i + 1].kind = "request"
                /\ trace[i + 1].idx = 2
                /\ trace[i + 1].url = baseURLs[2]
                /\ trace[i + 1].attempt = trace[i].attempt
                /\ Is2xx(trace[i + 1].response) =>
                    /\ epc = "done"
                    /\ result.kind = "ok"
                    /\ result.url = baseURLs[2]
                    /\ result.body = trace[i + 1].response.body
                    /\ attempt = trace[i].attempt
                    /\ Cardinality(Sleeps) = attempt

\* With retries configured, the first base URL answered 503 'no capacity
\* available', the second 2xx, and the call returned the second's response
\* in its first attempt.
C18_Witness ==
    /\ epc = "done"
    /\ requestRetry >= 1
    /\ Len(trace) = 2
    /\ IsNoCapacity(trace[1].response)
    /\ Is2xx(trace[2].response)
    /\ result.kind = "ok"
    /\ result.url = antigravitySandboxBaseURLDaily
    /\ attempt = 0

\* C19: a response with a status outside 2xx that is neither 429 nor a 503
\* 'no capacity available' is the last request of the call: the call has
\* returned that status and body, whatever base URLs and attempts were left.
C19_OtherStatusReturnedAtOnce ==
    \A i \in DOMAIN trace :
        (/\ trace[i].kind = "request"
         /\ trace[i].response.kind = "status"
         /\ ~Is2xx(trace[i].response)
         /\ trace[i].response.code # 429
         /\ ~IsNoCapacity(trace[i].response))
        => /\ i = Len(trace)
           /\ epc = "done"
           /\ result.kind = "status"
           /\ result.code = trace[i].response.code
           /\ result.body = trace[i].response.body

\* ExecuteStream returned a 503 that does not speak of capacity, from the
\* first of two base URLs and with attempts left.
C19_Witness ==
    /\ epc = "done"
    /\ variant = "ExecuteStream"
    /\ requestRetry >= 1
    /\ Len(baseURLs) = 2
    /\ Len(trace) = 1
    /\ result.kind = "status"
    /\ result.code = 503
    /\ result.body = "backend unavailable"

AllNoCapacity ==
    \A i \in DOMAIN trace :
        trace[i].kind = "request" => IsNoCapacity(trace[i].response)

\* The requests and waits of attempts a, a + 1, ... when every base URL of
\* every attempt is tried and a wait precedes every attempt but the first.
RECURSIVE WalkFrom(_, _, _)
WalkFrom(a, attempts, n) ==
    IF a >= attempts THEN <<>>
    ELSE [i \in 1 .. n |-> <<"request", a, i>>]
         \o (IF a + 1 < attempts THEN << <<"sleep", a, 0>> >> ELSE <<>>)
         \o WalkFrom(a + 1, attempts, n)

\* C20: when every base URL answered 503 'no capacity available' in every
\* attempt and the call has returned a status, it made exactly
\* max(1, retry + 1) attempts, each over all base URLs from the first on,
\* with a backoff wait before every attempt but the first, and it returned
\* status 503 with the body of the last response.
C20_NoCapacityExhaustsAttempts ==
    (epc = "done" /\ result.kind = "status" /\ trace # <<>> /\ AllNoCapacity) =>
        LET attempts == IF requestRetry + 1 > 1 THEN requestRetry + 1 ELSE 1
        IN  /\ [i \in DOMAIN trace |->
                    <<trace[i].kind, trace[i].attempt, trace[i].idx>>]
               = WalkFrom(0, attempts, Len(baseURLs))
            /\ \A i \in Sleeps : trace[i].delay > 0
            /\ attempt = attempts - 1
            /\ result.code = 503
            /\ result.body = trace[Len(trace)].response.body

\* Two attempts over two base URLs, all four answers 503 'no capacity
\* available', the last with a body unlike the first, and the call returned.
C20_Witness ==
    /\ epc = "done"
    /\ result.kind = "status"
    /\ AllNoCapacity
    /\ requestRetry = 1
    /\ Len(baseURLs) = 2
    /\ Len(trace) = 5
    /\ result.body # trace[1].response.body

\* C21: a 429 from a base URL that is not the last one is followed by the
\* request to the next base URL in the same attempt; a 429 from the last
\* base URL is the last request of the call, which has returned a 429 status
\* error with the body as message and the retry-after hint of the body, in
\* the attempt it was in, whatever attempts were left.
C21_TooManyRequestsFallsBackThenReturns ==
    \A i \in DOMAIN trace :
        (/\ trace[i].kind = "request"
         /\ trace[i].response.kind = "status"
         /\ trace[i].response.code = 429)
        => IF trace[i].idx < Len(baseURLs)
           THEN IF i = Len(trace)
                THEN /\ epc = "request"
                     /\ baseIdx = trace[i].idx + 1
                     /\ attempt = trace[i].attempt
                ELSE /\ trace[i + 1].kind = "request"
                     /\ trace[i + 1].idx = trace[i].idx + 1
                     /\ trace[i + 1].attempt = trace[i].attempt
           ELSE /\ i = Len(trace)
                /\ epc = "done"
                /\ result.kind = "status"
                /\ result.code = 429
                /\ result.body = trace[i].response.body
                /\ result.retryAfter = parseRetryDelay(trace[i].response.body)
                /\ attempt = trace[i].attempt

\* With retries configured, both base URLs answered 429, the second with a
\* retry-after hint, and the call returned the 429 with the hint in its first
\* attempt.
C21_Witness ==
    /\ epc = "done"
    /\ requestRetry >= 1
    /\ Len(baseURLs) = 2
    /\ Len(trace) = 2
    /\ trace[1].response.code = 429
    /\ trace[2].response.code = 429
    /\ result.kind = "status"
    /\ result.code = 429
    /\ result.retryAfter = 30
    /\ attempt = 0

\* The steps of the call that began after the context became done.
AfterCancel == {i \in DOMAIN trace : i > cancelAt.len}

\* C22: once the context is done the call sends no request upstream and
\* starts no backoff wait: the only wait that may still end is the one the
\* call was in, and the only call of httpClient.Do fails with the context's
\* error before anything is sent. A request that failed with the context's
\* error is the last step of the call, which returned that error as it was,
\* whatever base URLs were left; and a call whose context became done during
\* the backoff wait returns the context's error.
C22_NothingStartsAfterCancellation ==
    /\ ctx # "live" =>
        /\ \A i \in AfterCancel :
            IF trace[i].kind = "request"
            THEN /\ ~trace[i].sent
                 /\ trace[i].response.body = CtxErr(ctx)
                 /\ i = Len(trace)
            ELSE /\ cancelAt.epc = "wait"
                 /\ i = cancelAt.len + 1
        /\ epc = "wait" => (cancelAt.epc = "wait" /\ AfterCancel = {})
        /\ (epc = "done" /\ cancelAt.epc = "wait") =>
            /\ result.kind = "error"
            /\ result.body = CtxErr(ctx)
    /\ \A i \in DOMAIN trace :
        (trace[i].kind = "request" /\ IsCtxErr(trace[i].response))
        => /\ i = Len(trace)
           /\ epc = "done"
           /\ result.kind = "error"
           /\ result.body = trace[i].response.body

\* The deadline passed during the backoff wait after both base URLs had
\* answered 503 'no capacity available', and the call returned the
\* context's error with attempts left and no further request.
C22_Witness ==
    /\ epc = "done"
    /\ ctx = "deadline exceeded"
    /\ cancelAt = [len |-> 2, epc |-> "wait"]
    /\ Len(baseURLs) = 2
    /\ Len(trace) = 2
    /\ requestRetry >= 1
    /\ result.kind = "error"
    /\ result.body = "context deadline exceeded"

\* The calls of httpClient.Do the loop has made.
Requests == {i \in DOMAIN trace : trace[i].kind = "request"}

\* The terminal states a returned result stands for: a nil error, the
\* context's error, a 401 status error, or any other error.
TerminalStates(res) ==
    {t \in {"Success", "ClientError", "AuthError", "Cancelled"} :
        CASE t = "Success" -> res.kind = "ok"
          [] t = "Cancelled" ->
                /\ res.kind = "error"
                /\ res.body \in {"context canceled", "context deadline exceeded"}
          [] t = "AuthError" -> res.kind = "status" /\ res.code = 401
          [] t = "ClientError" ->
                \/ res.kind = "status" /\ res.code # 401
                \/ /\ res.kind = "error"
                   /\ res.body \notin {"context canceled", "context deadline exceeded"}}

\* C23: every call returns, whatever the upstream answers; it never makes
\* more than max(1, retry + 1) * len(baseURLs) requests; and once it has
\* returned, its result is exactly one of success, a client error, an auth
\* error or a cancellation.
C23_CallTerminatesWithinBound ==
    /\ <>(epc = "done")
    /\ [](LET attempts == IF requestRetry + 1 > 1 THEN requestRetry + 1 ELSE 1
          IN  /\ Cardinality(Requests) <= attempts * Len(baseURLs)
              /\ epc = "done" <=> result # NoResult
              /\ epc = "done" => Cardinality(TerminalStates(result)) = 1)

\* A call that used every request it may make: three attempts over two base
\* URLs, and it returned the last 503.
C23_Witness ==
    /\ epc = "done"
    /\ requestRetry = 2
    /\ Len(baseURLs) = 2
    /\ Cardinality(Requests) = 6
    /\ TerminalStates(result) = {"ClientError"}

\* The call has returned and the goroutine of its stream, if any, is done.
CallOver == epc = "done" /\ stream \notin {"open", "broken"}

\* The call failed: it returned an error, or the scanner of its stream did.
CallFailed == result.kind # "ok" \/ stream = "failed"

\* What the usage reporters of the call published: each reporter publishes
\* the first terminal call it receives and ignores the later ones.
TerminalEvents ==
    { <<usage[i].rep, usage[i].call>> :
        i \in {k \in DOMAIN usage : \A j \in 1 .. k - 1 : usage[j].rep # usage[k].rep} }

\* C24: when a call is over, exactly one terminal event has been published
\* for it: ensurePublished if it succeeded, publishFailure if it failed.
C24_ExactlyOneTerminalEvent ==
    CallOver =>
        \E rep \in {"outer", "inner"} :
            TerminalEvents
                = {<<rep, IF CallFailed THEN "publishFailure" ELSE "ensurePublished">>}

\* The requests for a Claude model whose payload has a web_search tool.
ClaudeWebSearch ==
    {req \in ClientRequests :
        /\ Contains(ToLower(req.model), "claude")
        /\ \E i \in DOMAIN req.tools : HasPrefix(req.tools[i], "web_search")}

C26_RecoveryReissuedAtMostOnce ==
    recovery.rpc # "idle" =>
        LET sends == recovery.sends
            rewritten == ConvertThinkingToTextForRecoveryFix(recovery.payload)
        IN  /\ Cardinality({k \in DOMAIN sends : sends[k].attempt}) <= 1
            /\ Len(sends) <= 2
            /\ \A k \in DOMAIN sends :
                LET rejected == /\ sends[k].response \in SignatureValidationErrors
                              /\ recovery.model \in ClaudeModels
                IN  /\ (rejected /\ ~sends[k].attempt /\ rewritten # recovery.payload) =>
                        /\ recovery.attempt
                        /\ recovery.current = rewritten
                        /\ IF k < Len(sends)
                           THEN /\ sends[k + 1].payload = rewritten
                                /\ sends[k + 1].attempt
                           ELSE recovery.rpc = "send"
                    /\ (rejected /\ sends[k].attempt) =>
                        /\ k = Len(sends)
                        /\ recovery.rpc = "done"
                        /\ recovery.surfaced = sends[k].response
                        /\ recovery.current = sends[k].payload

C26_Witness ==
    /\ recovery.rpc = "done"
    /\ Len(recovery.sends) = 2
    /\ recovery.sends[1].response \in SignatureValidationErrors
    /\ recovery.sends[2].attempt
    /\ recovery.sends[2].response \in SignatureValidationErrors
    /\ recovery.surfaced = recovery.sends[2].response

\* The position of the first thinking block of a message's content, 0 when
\* it has none.
FirstThinking(content) ==
    LET thinking == {j \in DOMAIN content : content[j].type = "thinking"}
    IN  IF thinking = {} THEN 0
        ELSE CHOOSE j \in thinking : \A k \in thinking : j <= k

\* C27: the rewrite turns every thinking block into a text block that carries
\* the thinking text, except the first thinking block of the final assistant
\* message, which stays a thinking block and only loses its signature; every
\* other block and every other field of the payload and of its messages stays
\* as it was.
C27_RewriteKeepsFirstThinkingOfFinalAssistant ==
    (recovery.rpc # "idle" /\ recovery.converted # NoPayload) =>
        LET before == recovery.payload
            after == recovery.converted
            last == lastAssistantIdx(before.messages)
        IN  /\ DOMAIN after = DOMAIN before
            /\ \A f \in DOMAIN before \ {"messages"} : after[f] = before[f]
            /\ DOMAIN after.messages = DOMAIN before.messages
            /\ \A i \in DOMAIN before.messages :
                /\ DOMAIN after.messages[i] = DOMAIN before.messages[i]
                /\ after.messages[i].role = before.messages[i].role
                /\ DOMAIN after.messages[i].content = DOMAIN before.messages[i].content
                /\ \A j \in DOMAIN before.messages[i].content :
                    LET b == before.messages[i].content[j]
                        c == after.messages[i].content[j]
                    IN  IF b.type # "thinking" THEN c = b
                        ELSE IF i = last /\ j = FirstThinking(before.messages[i].content)
                        THEN c = sjsonDelete(b, "signature")
                        ELSE c = [type |-> "text", text |-> b.thinking]

\* The test of the claim, written out: no token after trimming, or an expiry
\* that is not later than the clock of the call plus 3000 s.
TokenStale ==
    \/ metaStringValue(token.given, "access_token") = ""
    \/ tokenExpiry(token.given) <= TokenNow + 3000 * Second

\* C28: ensureAccessToken calls refreshToken exactly when the stored token is
\* empty or its expiry is not later than now + 3000 s; otherwise it returns the
\* stored token and no request goes to the token endpoint.  A refresh without a
\* stored refresh token returns a 401 error and sends no request.  The auth of
\* the caller keeps the metadata it had: every write goes to a clone.
C28_RefreshExactlyWhenStale ==
    token.tpc \in {"refresh", "done"} =>
        /\ token.refreshed <=> TokenStale
        /\ ~token.refreshed =>
            /\ token.requests = 0
            /\ token.err = NoTokenError
            /\ token.updated = 0
            /\ token.accessToken = metaStringValue(token.given, "access_token")
        /\ (token.refreshed /\ metaStringValue(token.given, "refresh_token") = "") =>
            /\ token.tpc = "done"
            /\ token.err.code = 401
            /\ token.requests = 0
        /\ token.objects[token.auth] = token.given
        /\ token.updated # token.auth

\* A refresh that the 3000 s alone cause (the token is there and has not
\* expired) and that succeeded on the clone.
C28_Witness ==
    /\ token.tpc = "done"
    /\ token.refreshed
    /\ metaStringValue(token.given, "access_token") # ""
    /\ tokenExpiry(token.given) = TokenNow + refreshSkew
    /\ token.updated # 0
    /\ token.objects[token.updated].access_token = "ya29.fresh"
    /\ token.objects[token.auth] = token.given

\* The auths the claim lets a fetch start for.
Pollable(auth) ==
    /\ ToLower(TrimSpace(auth.Provider)) \in {"antigravity", "codex", "gemini-cli"}
    /\ ~auth.Disabled
    /\ auth.Status # "disabled"
    /\ ToLower(TrimSpace(auth.Attributes.runtime_only)) # "true"

\* Those of them among the auths of the lists, computed once.
PollableAuths ==
    {a \in UNION {{l[i] : i \in DOMAIN l} : l \in PollLists} : Pollable(a)}

AtMostFiveOnlyPollable ==
    /\ Cardinality(InFlight(poller.fetch)) <= 5
    /\ \A i \in DOMAIN poller.fetch :
        poller.fetch[i] # "none" => poller.auths[i] \in PollableAuths

\* C29 as stated: at most 5 fetches in flight at any moment, fetches only for
\* auths of the three providers that are neither disabled nor runtime_only,
\* and no fetch in flight when the iteration has returned.
C29_ReturnsAfterEveryFetch ==
    poller.ppc # "idle" =>
        /\ AtMostFiveOnlyPollable
        /\ poller.ppc = "returned" => InFlight(poller.fetch) = {}

\* C29, amended: at most 5 fetches in flight at any moment, fetches only for
\* auths of the three providers that are neither disabled nor runtime_only,
\* and an iteration that returned with a fetch in flight returned from the
\* dispatch of a further auth, on a context that was done.
C29_ReturnsAfterEveryFetchUnlessCancelled ==
    poller.ppc # "idle" =>
        /\ AtMostFiveOnlyPollable
        /\ (poller.ppc = "returned" /\ InFlight(poller.fetch) # {}) =>
            /\ poller.ctxDone
            /\ poller.idx <= Len(poller.auths)

\* An iteration over more than 5 auths that had 5 fetches in flight at once
\* and returned, its context live, with every fetch done.
C29_Witness ==
    /\ poller.ppc = "returned"
    /\ ~poller.ctxDone
    /\ poller.peak = 5
    /\ Cardinality({i \in DOMAIN poller.fetch : poller.fetch[i] = "done"}) > 5
    /\ \E i \in DOMAIN poller.fetch : poller.fetch[i] = "none"

\* The map the last poll fetched is the one its auth mirrored: the provider
\* is the same and every model has a percent within 1e-4 and the same reset
\* time on both sides.
FetchedEqualsMirrored ==
    /\ "cliproxy_quota" \in DOMAIN mirror.before
    /\ LoweredProvider[mirror.before.cliproxy_quota.provider] = "antigravity"
    /\ LET mirrored == parseSnapshotModels(mirror.before.cliproxy_quota.models)
       IN  /\ DOMAIN mirrored = DOMAIN mirror.fetched
           /\ \A key \in DOMAIN mirrored :
               /\ mirrored[key].Percent - mirror.fetched[key].Percent \in -10..10
               /\ mirrored[key].ResetTime = mirror.fetched[key].ResetTime

C30_EqualSnapshotLeavesMetadata ==
    (mirror.mpc = "poll" /\ mirror.polls > 0 /\ FetchedEqualsMirrored) =>
        /\ ~mirror.changed
        /\ ~mirror.issued
        /\ mirror.metadata = mirror.before

\* C30: a poll that fetches the map its auth already mirrors, with the same
\* provider, changes nothing in the metadata and issues no Update; and two
\* polls in a row that get the same upstream values issue at most one Update.
C30_SameValuesAtMostOneUpdate ==
    /\ C30_EqualSnapshotLeavesMetadata
    /\ (mirror.mpc = "poll" /\ mirror.polls >= 2 /\ mirror.upstream = mirror.previous) =>
            ~(mirror.issued /\ mirror.issuedBefore)

\* The id of the auth the mirror belongs to.
MirrorAuthID == "auth-1"

\* C31: after a poll that fetched a non-empty snapshot, the durable store's
\* entry of the auth and the auth's metadata mirror answer alike for every
\* model: GetPercent of the store and GetPercentFromMetadata agree on whether
\* a percent is known and on its value.
C31_StoreAgreesWithMirror ==
    (mirror.mpc = "poll" /\ mirror.polls > 0 /\ DOMAIN mirror.fetched # {}) =>
        \A model \in UpstreamNames :
            LET stored == GetPercent(AuthQuotas, MirrorAuthID, model)
                mirrored == GetPercentFromMetadata(mirror.metadata, model)
            IN  /\ stored.ok = mirrored.ok
                /\ stored.percent * PercentUnit = mirrored.percent

\* After the cancellation run returns.
ExitsAfterCancel == poller.ctxDone ~> (poller.ppc = "exited")

\* No step taken after the cancellation begins an iteration.
NoIterationAfterCancel == [][poller.ctxDone => poller'.iter = poller.iter]_vars

\* No step taken after the cancellation is the dispatch of a fetch (the
\* only step that adds one to the wait group).
NoDispatchAfterCancel == [][poller.ctxDone => poller'.wg # poller.wg + 1]_vars

\* While the context is live run does not return, and an iteration in which
\* a fetch failed is followed by the next one (within the iterations
\* modelled) unless the context is cancelled first.
FailureKeepsLoop ==
    /\ [](poller.ppc = "exited" => poller.ctxDone)
    /\ \A k \in 1..(MaxIterations - 1) :
        (poller.failedIter = k /\ poller.iter = k) ~>
            (poller.iter = k + 1 \/ poller.ctxDone)

\* C32 as stated: after the parent context is cancelled the loop of run
\* eventually exits, starts no new iteration and dispatches no new fetch;
\* while the context is live a failed fetch does not stop the loop and the
\* next iteration runs after the interval.
C32_NothingStartsAfterCancel ==
    /\ ExitsAfterCancel
    /\ NoIterationAfterCancel
    /\ NoDispatchAfterCancel
    /\ FailureKeepsLoop

\* C32 amended: as above, except that the iteration under way at the
\* cancellation may still dispatch fetches.
C32_CancelEndsRunFailureDoesNot ==
    /\ ExitsAfterCancel
    /\ NoIterationAfterCancel
    /\ FailureKeepsLoop

\* run returned after a cancellation, in a later iteration than the one in
\* which a fetch failed.
C32_Witness ==
    /\ poller.ppc = "exited"
    /\ poller.ctxDone
    /\ poller.failedIter >= 1
    /\ poller.iter > poller.failedIter

\* A fetch was dispatched with the context already done.
C32_DispatchAfterCancel ==
    /\ poller.ppc = "loop"
    /\ poller.ctxDone
    /\ poller.wg > 0

\* C33: a body from which no quotaInfo can be parsed changes no state.  A
\* call of UpdateAntigravityQuotaState with such a body leaves the auth's
\* model states and the refresh timers as they were, and a poll whose parser
\* returns the empty map issues no Update and leaves the metadata alone.
C33_QuotalessBodyChangesNothing ==
    /\ [][(calls' = calls + 1 /\ lastUpdate'.quotaless) =>
            UNCHANGED <<ModelStates, timers, timerState>>]_vars
    /\ []((mirror.polls = MaxPolls /\ DOMAIN mirror.fetched = {}) =>
            /\ ~mirror.issued
            /\ mirror.updates = 0
            /\ mirror.metadata = mirror.before)

\* Both happened, on an auth with a blocked model and a pending timer and on
\* an auth with a stored snapshot.
C33_Witness ==
    /\ lastUpdate.op = "update"
    /\ lastUpdate.quotaless
    /\ DOMAIN ModelStates # {}
    /\ \E id \in DOMAIN timerState : timerState[id].st = "pending"
    /\ mirror.polls = MaxPolls
    /\ DOMAIN mirror.fetched = {}
    /\ "cliproxy_quota" \in DOMAIN mirror.metadata

SteadyQuotaConfigs ==
    {<<Known(2, FALSE), Known(2, FALSE), Known(3, FALSE)>>,
     <<Known(3, FALSE), Known(2, FALSE), Known(3, TRUE)>>,
     <<Known(2, FALSE), Known(3, TRUE), Known(3, TRUE)>>,
     <<Known(3, FALSE), Known(3, FALSE), Known(3, FALSE)>>}

SteadyStart ==
    /\ priority \in PriorityConfigs
    /\ authState = [id \in AuthIDs |-> ZeroTime]
    /\ quota \in SteadyQuotaConfigs
    /\ rrCursor = 0
    /\ fallbackCursor = 0
    /\ cursors = <<>>
    /\ picks = 0
    /\ envSteps = 0
    /\ \E file \in SelectorFiles : lastPick = [sel |-> "steady", file |-> file, history |-> <<>>]

SteadyInit == TrackerIdle /\ SteadyStart /\ RRIdle /\ RestIdle

SteadyNext == PickSteady

SpecSteady == SteadyInit /\ [][SteadyNext]_vars

\* How often id occurs in the last n elements of h.
CountInLast(h, n, id) ==
    Cardinality({i \in (Len(h) - n + 1) .. Len(h) : h[i] = id})

RECURSIVE SumOf(_, _)
SumOf(f, S) == IF S = {} THEN 0 ELSE LET x == CHOOSE y \in S : TRUE
                                     IN  f[x] + SumOf(f, S \ {x})

\* C35: with a fixed candidate set and fixed positive weights of sum W,
\* QuotaWeightedSelector.Pick started from fresh cursors returns candidate i
\* exactly w_i times in every window of W consecutive picks, and after every
\* pick the cursor values of the key sum to 0.
C35_SmoothWindows ==
    "history" \in DOMAIN lastPick =>
        LET h == lastPick.history
            w == PickWeights(lastPick.file, quota)
            W == PickTotal(lastPick.file, priority, quota)
        IN  /\ Len(h) >= 1 => SumOf(cursors, DOMAIN cursors) = 0
            /\ Len(h) >= W =>
                    \A id \in AuthIDs :
                        CountInLast(h, W, id) = IF id \in HighestTier THEN w[id] ELSE 0

\* A second window of picks has been served to candidates of unequal weight,
\* and it does not start where the first one started.
C35_Witness ==
    /\ "history" \in DOMAIN lastPick
    /\ Len(lastPick.history) = 2 * PickTotal(lastPick.file, priority, quota)
    /\ Cardinality(HighestTier) >= 2
    /\ \E a, b \in HighestTier :
            PickWeights(lastPick.file, quota)[a] < PickWeights(lastPick.file, quota)[b]

(***************************************************************************)
(* Two UpdateAntigravityQuotaState calls in a row on one auth.             *)
(***************************************************************************)
\* The auth has two calls left of those counted in calls.
CallsStart ==
    /\ now = 1
    /\ ModelStates \in CallSeeds
    /\ seeded = (DOMAIN ModelStates # {})
    /\ timers = <<>>
    /\ timerState = <<>>
    /\ calls = MaxCalls - 2
    /\ lastUpdate = NoUpdateYet

CallsInit == CallsStart /\ SelIdle /\ RRIdle /\ RestIdle

CallsNext == UpdateInARow \/ Tick

SpecCalls == CallsInit /\ [][CallsNext]_vars

\* C36: after any sequence of UpdateAntigravityQuotaState calls starting from
\* an auth with no model states, every ModelState with Quota.Exceeded = true
\* also has Unavailable = true, Reason = quota_exhausted, a non-zero
\* NextRecoverAt, and NextRetryAfter = NextRecoverAt; every ModelState cleared
\* by recovery has Unavailable = false and a zero NextRetryAfter.
C36_ExceededStatesConsistent ==
    ~seeded =>
        /\ \A k \in DOMAIN ModelStates :
                ModelStates[k].Quota.Exceeded =>
                    /\ ModelStates[k].Unavailable
                    /\ ModelStates[k].Quota.Reason = "quota_exhausted"
                    /\ ModelStates[k].Quota.NextRecoverAt # ZeroTime
                    /\ ModelStates[k].NextRetryAfter = ModelStates[k].Quota.NextRecoverAt
        /\ lastUpdate.op = "update" =>
                \A k \in lastUpdate.cleared :
                    /\ ~ModelStates[k].Unavailable
                    /\ ModelStates[k].NextRetryAfter = ZeroTime
                    /\ ModelStates[k].Quota = EmptyQuotaState

\* The second call has cleared a model the first call marked, while another
\* model is still marked.
C36_Witness ==
    /\ ~seeded
    /\ lastUpdate.op = "update"
    /\ lastUpdate.cleared # {}
    /\ \E k \in DOMAIN ModelStates : ModelStates[k].Quota.Exceeded

\* The groups exhausted in the last call and in the call before it.
ExhaustedTwice ==
    IF "before" \in DOMAIN lastUpdate /\ lastUpdate.op = "update"
    THEN DOMAIN lastUpdate.exhaustedGroups \cap DOMAIN lastUpdate.before.exhaustedGroups
    ELSE {}

\* C37: for a model that belongs to an exhausted group in two successive
\* UpdateAntigravityQuotaState calls, NextRetryAfter never decreases: the
\* second call replaces it only with a strictly later reset time and otherwise
\* leaves the state as it was, also when the existing state was blocked for
\* a reason other than quota.
C37_RetryAfterMonotonic ==
    \A g \in ExhaustedTwice : \A k \in GroupMembers(g) \cup {g} :
        k \in DOMAIN lastUpdate.before.states =>
            LET old == lastUpdate.before.states[k]
                resetTime == lastUpdate.exhaustedGroups[g]
            IN  /\ k \in DOMAIN ModelStates
                /\ ModelStates[k].NextRetryAfter >= old.NextRetryAfter
                /\ ModelStates[k] # old =>
                        /\ resetTime > old.NextRetryAfter
                        /\ ModelStates[k].NextRetryAfter = resetTime
                /\ (k = g /\ resetTime <= old.NextRetryAfter) => ModelStates[k] = old

\* Both calls found the group exhausted; the state was blocked without the
\* quota flag before them, the first call left it alone and the second one,
\* with a later reset time, replaced it.
C37_Witness ==
    \E g \in ExhaustedTwice :
        /\ seeded
        /\ g \in DOMAIN lastUpdate.before.states
        /\ ~lastUpdate.before.states[g].Quota.Exceeded
        /\ lastUpdate.before.states[g].Unavailable
        /\ ModelStates[g].NextRetryAfter > lastUpdate.before.states[g].NextRetryAfter

(***************************************************************************)
(* GetAntigravityQuotaGroupID called twice for one model name.             *)
(***************************************************************************)
GroupLookupInit == OldIdle /\ GroupLookupStart /\ feed = NoFeed

GroupLookupNext == GroupLookupCall

SpecGroupLookup == GroupLookupInit /\ [][GroupLookupNext]_vars

\* C38: GetAntigravityQuotaGroupID is a deterministic function of the model
\* name: two calls with the same model return the same group id, also for a
\* name that matches by prefix the bases of members of more than one group;
\* a model matching no group yields itself as its group id.
C38_GroupIDDeterministic ==
    lookups.lpc = "group" =>
        /\ Len(lookups.ids) = 2 => lookups.ids[1] = lookups.ids[2]
        /\ (antigravityModelToGroup(lookups.model) = {} /\ PrefixGroups(lookups.model) = {}) =>
                \A i \in DOMAIN lookups.ids : lookups.ids[i] = lookups.model

\* The same, for the names that do not match the bases of two groups.
GroupIDDeterministicForOneGroup ==
    (lookups.lpc = "group" /\ Cardinality(PrefixGroups(lookups.model)) <= 1) =>
        /\ Len(lookups.ids) = 2 => lookups.ids[1] = lookups.ids[2]
        /\ (antigravityModelToGroup(lookups.model) = {} /\ PrefixGroups(lookups.model) = {}) =>
                \A i \in DOMAIN lookups.ids : lookups.ids[i] = lookups.model

\* The first answer was a rejected signature for a Claude model and the
\* rewrite of part_001 leaves the client payload as it is.
FailureWithNothingToConvert ==
    /\ recovery.rpc # "idle"
    /\ recovery.file = "part_001"
    /\ recovery.model \in ClaudeModels
    /\ Len(recovery.sends) >= 1
    /\ recovery.sends[1].response \in SignatureValidationErrors
    /\ ~PayloadChangedAfterRecovery(recovery.payload,
                                    ConvertThinkingToTextForRecoveryFix(recovery.payload))

\* C39: when a signature-validation failure is detected but the recovery
\* rewrite leaves the client payload byte-identical, TrySignatureRecoveryFix
\* reports shouldRetry = false, returns the context without the recovery
\* mark, and no request is re-issued.
C39_UnchangedPayloadNotRetried ==
    FailureWithNothingToConvert =>
        /\ \A r \in SignatureValidationErrors :
                LET try == TrySignatureRecoveryFix(FALSE, r, recovery.payload, recovery.model)
                IN  ~try.retry /\ ~try.attempt
        /\ recovery.rpc = "done"
        /\ ~recovery.attempt
        /\ Len(recovery.sends) = 1
        /\ recovery.surfaced = recovery.sends[1].response

\* Such a failure has been answered, for a payload with Extended Thinking on.
C39_Witness ==
    /\ FailureWithNothingToConvert
    /\ recovery.rpc = "done"
    /\ "thinking" \in DOMAIN recovery.payload

(***************************************************************************)
(* The stream of ExecuteStream.                                            *)
(***************************************************************************)
StreamInit == OldIdle /\ lookups = NoLookups /\ StreamStart

StreamSteps == StreamScan \/ StreamSend \/ StreamTail \/ StreamClose

StreamNext == StreamSteps \/ ConsumerStop

\* The goroutine runs whenever it can, and a caller that is receiving takes
\* what is sent.
SpecStream == StreamInit /\ [][StreamNext]_vars /\ WF_vars(StreamSteps)

RECURSIVE TranslatedFrom(_, _)
\* The chunks of the lines from the i-th on, line by line.
TranslatedFrom(body, i) ==
    IF i > Len(body) THEN <<>>
    ELSE (IF body[i].payload THEN ChunksOf(i, body[i].chunks) ELSE <<>>)
            \o TranslatedFrom(body, i + 1)

\* What the caller is to see of a stream: the translated lines in order, the
\* translation of [DONE] once, the error chunk last if the scanner failed.
WholeStream ==
    TranslatedFrom(feed.body, 1) \o ChunksOf(DoneLine, feed.tail)
        \o (IF feed.errScan THEN <<ErrChunk>> ELSE <<>>)

StreamInOrder ==
    feed.fpc # "idle" =>
        /\ Len(feed.out) <= Len(WholeStream)
        /\ feed.out = SubSeq(WholeStream, 1, Len(feed.out))
        /\ feed.closed => feed.out = WholeStream

====
